---- MODULE Spec2Model ----
(***************************************************************************)
(* State-machine model of ClinicDataImporter (src/app/data_loader.py):     *)
(* the importer that materialises a MySQL dump file or a live MySQL        *)
(* database into a local SQLite cache.                                     *)
(*                                                                         *)
(* Rows are modelled by their number and by the source content they were   *)
(* read from; the destination store is the committed content of the SQLite *)
(* file.  One state of pc is one position of ensure_cache/_rebuild_sqlite. *)
(* The dump file and the live database change only between two calls.      *)
(***************************************************************************)
EXTENDS Integers, Sequences, FiniteSets, TLC

VARIABLES
    pc,             \* position: "new", "ctor_failed", "idle", "open", "drop", "meta", "start", "rows", "sign"
    backup_path,    \* self.backup_path: None or Path
    mysql_settings, \* self.mysql_settings: None or Settings
    mode,           \* self.mode: None until constructed, "backup" or "mysql"
    pymysql,        \* TRUE iff the pymysql driver could be imported
    dumpFile,       \* content version of the dump file on disk, or Missing
    sqlite,         \* committed content of the destination store at sqlite_path
    force,          \* argument of the running (or last) ensure_cache call
    sinkRaises,     \* TRUE iff the progress callback of the call may raise
    signature,      \* local "signature" of the running (or last) call
    mysql_conn,     \* TRUE iff the live connection of the rebuild is open
    connects,       \* number of pymysql.connect attempts of the running (or last) call
    planIdx,        \* index in _plans() of the plan being dropped / imported
    chunkIdx,       \* number of statements / pages of the plan consumed so far
    batch,          \* len(batch) in _import_table
    total,          \* total in _import_table
    written,        \* rows of the current plan written but not yet committed
    outcome,        \* result of the last call: "none", "running", "skipped", "rebuilt", "error"
    err,            \* the exception that reached the caller, or NoError
    storeAtStart,   \* history: the store when the running (or last) call began
    fn,             \* unit specifications: the function being applied ("none" in Spec)
    arg,            \* unit specifications: its argument
    ret             \* unit specifications: its result, once applied

\* the state of the importer
importerVars == <<pc, backup_path, mysql_settings, mode, pymysql, dumpFile, sqlite,
                  force, sinkRaises, signature, mysql_conn, connects, planIdx, chunkIdx,
                  batch, total, written, outcome, err, storeAtStart>>
\* the state of a unit specification
unitVars == <<fn, arg, ret>>

vars == <<pc, backup_path, mysql_settings, mode, pymysql, dumpFile, sqlite,
          force, sinkRaises, signature, mysql_conn, connects, planIdx, chunkIdx,
          batch, total, written, outcome, err, storeAtStart, fn, arg, ret>>

----------------------------------------------------------------------------
(* Bounds of the model *)

\* number of distinct dump file contents
MaxDumpVersions == 2

(* Program constants *)

\* batch threshold of _import_table
BatchSize == 500
\* fetchmany page size of _iter_table_rows_mysql
PageSize == 500

None == "None"
\* the absence of a signature / of a source of rows
NoSignature == <<"None">>
NoSource == <<"None">>
\* the dump file does not exist / cannot be opened
Missing == 0
Path == "Path"

DumpVersions == 1..MaxDumpVersions

\* the tables of _plans(), in registry order
Plans == <<"patients", "payment_method", "stock_items", "receipts", "receipt_items">>
NumPlans == Len(Plans)

\* the mysql_settings argument: not supplied, or a dict of connection parameters
NoSettings == [given |-> FALSE, host |-> "", port |-> 0, database |-> ""]
Settings == [given |-> TRUE, host |-> "localhost", port |-> 3306, database |-> "clinicdb"]

----------------------------------------------------------------------------
(* Sources *)

\* number of tuples of each INSERT statement of plan i in dump content d
DumpStatements(d, i) ==
    IF d = 1 THEN (IF i = 1 THEN <<500, 1>> ELSE <<1>>)
    ELSE IF d = 2 THEN (IF i = 3 THEN <<300, 300, 2>> ELSE <<2>>)
    ELSE <<d>>

\* number of rows of table i in the live database
LiveRows(i) == IF i = 1 THEN 1001 ELSE 7

RECURSIVE FetchPages(_)
\* cursor.fetchmany(500) until it returns no rows
FetchPages(n) ==
    IF n = 0 THEN <<>>
    ELSE IF n <= PageSize THEN <<n>>
    ELSE <<PageSize>> \o FetchPages(n - PageSize)

\* content identifier of the source the importer reads from
SourceId(m, d) == IF m = "backup" THEN <<"dump", d>> ELSE <<"live", 0>>

\* chunks (statements or pages) that _iter_table_rows yields for plan i
IterTableRows(m, d, i) ==
    IF m = "backup" THEN DumpStatements(d, i) ELSE FetchPages(LiveRows(i))

RECURSIVE SumSeq(_)
SumSeq(s) == IF s = <<>> THEN 0 ELSE Head(s) + SumSeq(Tail(s))

\* number of rows the source holds for plan i
SourceRows(m, d, i) == SumSeq(IterTableRows(m, d, i))

----------------------------------------------------------------------------
(* Signatures *)

\* a digest that does not depend on the content
Sha256Colliding(d) == <<"sha256", 0>>

\* hashlib.sha256 of the file bytes: distinct contents, distinct digests
Sha256(d) == <<"sha256", d>>

\* the descriptor of a live source
MysqlDescriptor(cfg) == <<"mysql", cfg.host, cfg.port, cfg.database>>

\* _current_signature; the dump file is readable here
CurrentSignature(m, d, cfg) ==
    IF m = "backup" THEN Sha256(d) ELSE MysqlDescriptor(cfg)

----------------------------------------------------------------------------
(* The destination store *)

NoTable == [exists |-> FALSE, src |-> NoSource, rows |-> 0, indexed |-> FALSE]
EmptyTable == [exists |-> TRUE, src |-> NoSource, rows |-> 0, indexed |-> FALSE]
NoMeta == [exists |-> FALSE, source_signature |-> NoSignature, backup_sha256 |-> NoSignature]
EmptyMeta == [exists |-> TRUE, source_signature |-> NoSignature, backup_sha256 |-> NoSignature]

AbsentStore == [kind |-> "absent", tables |-> [i \in 1..NumPlans |-> NoTable], meta |-> NoMeta]
\* a file at sqlite_path that is not an SQLite database
CorruptStore == [kind |-> "corrupt", tables |-> [i \in 1..NumPlans |-> NoTable], meta |-> NoMeta]
\* a database without any of the importer's tables
BareStore == [kind |-> "db", tables |-> [i \in 1..NumPlans |-> NoTable], meta |-> NoMeta]
\* a cache written by an earlier release, which stored the digest under backup_sha256
LegacyStore ==
    [kind |-> "db",
     tables |-> [i \in 1..NumPlans |->
                    [exists |-> TRUE, src |-> <<"dump", 1>>,
                     rows |-> SumSeq(DumpStatements(1, i)), indexed |-> TRUE]],
     meta |-> [exists |-> TRUE, source_signature |-> NoSignature, backup_sha256 |-> Sha256(1)]]

ReadError == <<"sqlite3.Error">>

\* the SELECTs of ensure_cache: the row read from metadata, None, or a read error
ReadPersistedSignature(st) ==
    IF st.kind # "db" \/ ~st.meta.exists THEN ReadError
    ELSE IF st.meta.source_signature # NoSignature THEN st.meta.source_signature
    ELSE st.meta.backup_sha256

\* variants of the up-to-date test: a read error counts as a match; force is
\* not consulted; the test never succeeds
CacheUpToDateFailClosed(m, f, st, sig) ==
    /\ m = "backup" /\ ~f /\ st.kind # "absent"
    /\ ReadPersistedSignature(st) \in {sig, ReadError}

CacheUpToDateIgnoringForce(m, f, st, sig) ==
    /\ m = "backup" /\ st.kind # "absent"
    /\ ReadPersistedSignature(st) = sig

CacheUpToDateNever(m, f, st, sig) == FALSE

\* ensure_cache returns early with "SQLite cache already up to date."
CacheUpToDate(m, f, st, sig) ==
    /\ m = "backup" /\ ~f /\ st.kind # "absent"
    /\ ReadPersistedSignature(st) # ReadError
    /\ ReadPersistedSignature(st) = sig

\* sqlite3.connect on the rebuild path and the PRAGMAs: a missing file is created
ConnectSqlite(st) == IF st.kind = "absent" THEN BareStore ELSE st

\* a table that is created only if missing and keeps the rows it has
DropAndCreateKeepingRows(st, i) == [st EXCEPT !.tables[i].exists = TRUE]

\* DROP TABLE IF EXISTS / CREATE TABLE of plan i
DropAndCreate(st, i) == [st EXCEPT !.tables[i] = EmptyTable]

\* a metadata table that is recreated empty
CreateMetadataResetting(st) == [st EXCEPT !.meta = EmptyMeta]

\* CREATE TABLE IF NOT EXISTS metadata: an existing table keeps its rows
CreateMetadata(st) == [st EXCEPT !.meta.exists = TRUE]

\* the committed table of plan i after _import_table wrote n rows from src
CommitTable(st, i, src, n) ==
    [st EXCEPT !.tables[i] = [exists |-> TRUE, src |-> src, rows |-> n, indexed |-> TRUE]]

\* INSERT OR REPLACE INTO metadata ... 'source_signature' and the commit
PersistSignature(st, sig) == [st EXCEPT !.meta.source_signature = sig]

\* The stores an exception inside "with sqlite3.connect(...)" can leave: the
\* rollback of the w uncommitted rows of plan i is undefined under
\* journal_mode = OFF, the rows are discarded or stay.
AbortedStores(st, i, src, w) ==
    {st} \cup
    (IF w > 0
     THEN {[st EXCEPT !.tables[i] =
                [exists |-> TRUE, src |-> src, rows |-> w, indexed |-> FALSE]]}
     ELSE {})

\* the value persisted under source_signature
PersistedSignature(st) == st.meta.source_signature

----------------------------------------------------------------------------
(* Exceptions *)

\* class: the exception type; table: the table named by the message, if any;
\* driver: the message carries the text of the underlying error; at: the
\* position of the call where it was raised
NoError == [class |-> "none", table |-> None, driver |-> FALSE, at |-> "none"]
\* raised by the importer itself, with the text of the underlying error or without
ImportError(drv, at) == [class |-> "DataImportError", table |-> None, driver |-> drv, at |-> at]
\* an exception of a library or of the callback that the importer lets through unwrapped
RawError(cls, at) == [class |-> cls, table |-> None, driver |-> TRUE, at |-> at]

cfgVars == <<backup_path, mysql_settings, mode>>
envVars == <<pymysql, dumpFile>>
callVars == <<force, sinkRaises, signature, storeAtStart>>
loopVars == <<planIdx, chunkIdx, batch, total, written>>

\* what one call of the progress callback can do
ProgressOutcomes == IF sinkRaises THEN {"ok", "raise"} ELSE {"ok"}

\* the chunks of the plan being imported
CurrentChunks == IterTableRows(mode, dumpFile, planIdx)
CurrentSource == SourceId(mode, dumpFile)

----------------------------------------------------------------------------
(* Initial state: nothing constructed, any environment *)

Init ==
    /\ pc = "new"
    /\ backup_path = None
    /\ mysql_settings = NoSettings
    /\ mode = None
    /\ pymysql \in BOOLEAN
    /\ dumpFile \in DumpVersions \cup {Missing}
    /\ sqlite \in {AbsentStore, CorruptStore, BareStore, LegacyStore}
    /\ force = FALSE
    /\ sinkRaises = FALSE
    /\ signature = NoSignature
    /\ mysql_conn = FALSE
    /\ connects = 0
    /\ planIdx = 0
    /\ chunkIdx = 0
    /\ batch = 0
    /\ total = 0
    /\ written = 0
    /\ outcome = "none"
    /\ err = NoError
    /\ storeAtStart = sqlite
    /\ fn = "none"
    /\ arg = <<>>
    /\ ret = <<>>

----------------------------------------------------------------------------
(* ClinicDataImporter.__init__ *)

Construct(bp, ms) ==
    /\ pc \in {"new", "ctor_failed"}
    /\ UNCHANGED unitVars
    /\ backup_path' = bp
    /\ mysql_settings' = ms
    /\ storeAtStart' = sqlite
    /\ IF bp = Path /\ dumpFile = Missing
       THEN /\ pc' = "ctor_failed" /\ err' = ImportError(FALSE, "init") /\ mode' = None
       ELSE IF ms.given /\ ~pymysql
       THEN /\ pc' = "ctor_failed" /\ err' = ImportError(FALSE, "init") /\ mode' = None
       ELSE IF bp = None /\ ~ms.given
       THEN /\ pc' = "ctor_failed" /\ err' = ImportError(FALSE, "init") /\ mode' = None
       ELSE /\ pc' = "idle" /\ err' = NoError
            /\ mode' = IF bp = Path THEN "backup" ELSE "mysql"
    /\ UNCHANGED <<envVars, sqlite, force, sinkRaises, signature, mysql_conn,
                   connects, loopVars, outcome>>

----------------------------------------------------------------------------
(* ensure_cache *)

\* an exception leaves the call: the store is st, the live connection is closed
Raise(e, st) ==
    /\ pc' = "idle"
    /\ outcome' = "error"
    /\ err' = e
    /\ sqlite' = st
    /\ mysql_conn' = FALSE
    /\ chunkIdx' = 0 /\ batch' = 0 /\ total' = 0 /\ written' = 0

\* lines 86-106: signature, the up-to-date test, the first notification
EnsureCache(f, s) ==
    /\ pc = "idle"
    /\ UNCHANGED unitVars
    /\ force' = f
    /\ sinkRaises' = s
    /\ storeAtStart' = sqlite
    /\ connects' = 0
    /\ planIdx' = 0
    /\ IF mode = "backup" /\ dumpFile = Missing
       THEN /\ signature' = NoSignature
            /\ Raise(RawError("OSError", "signature"), sqlite)
       ELSE LET sig == CurrentSignature(mode, dumpFile, mysql_settings) IN
            /\ signature' = sig
            /\ \E p \in (IF s THEN {"ok", "raise"} ELSE {"ok"}) :
                 IF p = "raise"
                 THEN Raise(RawError("CallbackError",
                                     IF CacheUpToDate(mode, f, sqlite, sig)
                                     THEN "skip" ELSE "begin"), sqlite)
                 ELSE IF CacheUpToDate(mode, f, sqlite, sig)
                 THEN /\ pc' = "idle" /\ outcome' = "skipped" /\ err' = NoError
                      /\ UNCHANGED <<sqlite, mysql_conn, chunkIdx, batch, total, written>>
                 ELSE /\ pc' = "open" /\ outcome' = "running" /\ err' = NoError
                      /\ UNCHANGED <<sqlite, mysql_conn, chunkIdx, batch, total, written>>
    /\ UNCHANGED <<cfgVars, envVars>>

----------------------------------------------------------------------------
(* _rebuild_sqlite *)

\* _open_mysql succeeds, at the first attempt or at the utf8 fallback attempt
OpenMysqlOk ==
    /\ pc = "open"
    /\ UNCHANGED unitVars
    /\ IF mode = "mysql"
       THEN /\ \E n \in {1, 2} : connects' = n
            /\ mysql_conn' = TRUE
       ELSE UNCHANGED <<connects, mysql_conn>>
    /\ pc' = "connect"
    /\ UNCHANGED <<cfgVars, envVars, callVars, loopVars, sqlite, outcome, err>>

\* _open_mysql raises after a store connection was already made
OpenMysqlFailsAfterConnect ==
    /\ pc = "open"
    /\ UNCHANGED unitVars
    /\ mode = "mysql"
    /\ \E n \in {1, 2} : connects' = n
    /\ Raise(ImportError(TRUE, "open_mysql"), ConnectSqlite(sqlite))
    /\ UNCHANGED <<cfgVars, envVars, callVars, planIdx>>

\* _open_mysql raises: the first attempt fails for another reason than the
\* character set, or the fallback attempt fails
OpenMysqlFails ==
    /\ pc = "open"
    /\ UNCHANGED unitVars
    /\ mode = "mysql"
    /\ \E n \in {1, 2} : connects' = n
    /\ Raise(ImportError(TRUE, "open_mysql"), sqlite)
    /\ UNCHANGED <<cfgVars, envVars, callVars, planIdx>>

\* sqlite3.connect(self.sqlite_path, timeout=5) and the three PRAGMAs
ConnectStore ==
    /\ pc = "connect"
    /\ UNCHANGED unitVars
    /\ \/ /\ sqlite.kind # "corrupt"
          /\ sqlite' = ConnectSqlite(sqlite)
          /\ pc' = "drop"
          /\ planIdx' = 1
          /\ UNCHANGED <<mysql_conn, chunkIdx, batch, total, written, outcome, err>>
       \/ /\ Raise(RawError("sqlite3.Error", "connect"), sqlite)
          /\ UNCHANGED planIdx
    /\ UNCHANGED <<cfgVars, envVars, callVars, connects>>

\* one pass of the first loop over _plans(): DROP TABLE IF EXISTS, CREATE TABLE
DropTable ==
    /\ pc = "drop"
    /\ UNCHANGED unitVars
    /\ sqlite' = DropAndCreate(sqlite, planIdx)
    /\ IF planIdx < NumPlans
       THEN pc' = "drop" /\ planIdx' = planIdx + 1
       ELSE pc' = "meta" /\ planIdx' = 0
    /\ UNCHANGED <<mysql_conn, chunkIdx, batch, total, written, outcome, err>>
    /\ UNCHANGED <<cfgVars, envVars, callVars, connects>>

\* CREATE TABLE IF NOT EXISTS metadata and the commit of line 143
CreateMetadataTable ==
    /\ pc = "meta"
    /\ UNCHANGED unitVars
    /\ sqlite' = CreateMetadata(sqlite)
    /\ pc' = "start"
    /\ planIdx' = 1
    /\ UNCHANGED <<cfgVars, envVars, callVars, connects, mysql_conn, chunkIdx,
                   batch, total, written, outcome, err>>

----------------------------------------------------------------------------
(* _import_table *)

\* line 198: the "Importing <table> ..." notification, then the empty batch
ImportStart ==
    /\ pc = "start"
    /\ UNCHANGED unitVars
    /\ \E p \in ProgressOutcomes :
         IF p = "raise"
         THEN /\ Raise(RawError("CallbackError", "table_start"), sqlite)
              /\ UNCHANGED planIdx
         ELSE /\ pc' = "rows"
              /\ chunkIdx' = 0 /\ batch' = 0 /\ total' = 0 /\ written' = 0
              /\ UNCHANGED <<sqlite, mysql_conn, planIdx, outcome, err>>
    /\ UNCHANGED <<cfgVars, envVars, callVars, connects>>

\* lines 201-212: one statement or page is read, converted and appended to the
\* batch; a batch of at least 500 rows is written and reported
ImportChunk ==
    /\ pc = "rows"
    /\ UNCHANGED unitVars
    /\ chunkIdx < Len(CurrentChunks)
    /\ LET c == CurrentChunks[chunkIdx + 1]
           b == batch + c
       IN
       \/ \* cursor.execute / cursor.fetchmany fails
          /\ mode = "mysql"
          /\ \E st \in AbortedStores(sqlite, planIdx, CurrentSource, written) :
                Raise(RawError("pymysql.MySQLError", "read"), st)
          /\ UNCHANGED planIdx
       \/ \* the batch stays below the threshold
          /\ b < BatchSize
          /\ batch' = b
          /\ chunkIdx' = chunkIdx + 1
          /\ UNCHANGED <<pc, sqlite, mysql_conn, planIdx, total, written, outcome, err>>
       \/ \* conn.executemany fails
          /\ b >= BatchSize
          /\ \E st \in AbortedStores(sqlite, planIdx, CurrentSource, written) :
                Raise(RawError("sqlite3.Error", "write"), st)
          /\ UNCHANGED planIdx
       \/ \* the batch is written, then "<table>: <total> rows processed..."
          /\ b >= BatchSize
          /\ \E p \in ProgressOutcomes :
               IF p = "raise"
               THEN /\ \E st \in AbortedStores(sqlite, planIdx, CurrentSource, written + b) :
                         Raise(RawError("CallbackError", "batch"), st)
                    /\ UNCHANGED planIdx
               ELSE /\ written' = written + b
                    /\ total' = total + b
                    /\ batch' = 0
                    /\ chunkIdx' = chunkIdx + 1
                    /\ UNCHANGED <<pc, sqlite, mysql_conn, planIdx, outcome, err>>
    /\ UNCHANGED <<cfgVars, envVars, callVars, connects>>

\* lines 213-220 and the step of the loop of line 145: the last batch, the
\* indexes, the commit, "<table>: <total> rows imported."
ImportFinish ==
    /\ pc = "rows"
    /\ UNCHANGED unitVars
    /\ chunkIdx = Len(CurrentChunks)
    /\ \/ \* the fetchmany that would have returned no rows fails
          /\ mode = "mysql"
          /\ \E st \in AbortedStores(sqlite, planIdx, CurrentSource, written) :
                Raise(RawError("pymysql.MySQLError", "read"), st)
          /\ UNCHANGED planIdx
       \/ \* the last executemany, an index statement or the commit fails
          /\ \E st \in AbortedStores(sqlite, planIdx, CurrentSource, written) :
                Raise(RawError("sqlite3.Error", "write"), st)
          /\ UNCHANGED planIdx
       \/ \E p \in ProgressOutcomes :
            LET st == CommitTable(sqlite, planIdx, CurrentSource, written + batch) IN
            IF p = "raise"
            THEN /\ Raise(RawError("CallbackError", "table_end"), st)
                 /\ UNCHANGED planIdx
            ELSE /\ sqlite' = st
                 /\ total' = total + batch
                 /\ batch' = 0
                 /\ written' = 0
                 /\ chunkIdx' = 0
                 /\ IF planIdx < NumPlans
                    THEN pc' = "start" /\ planIdx' = planIdx + 1
                    ELSE pc' = "sign" /\ planIdx' = planIdx
                 /\ UNCHANGED <<mysql_conn, outcome, err>>
    /\ UNCHANGED <<cfgVars, envVars, callVars, connects>>

\* lines 148-156: the signature is persisted and committed, the live
\* connection is closed, "SQLite cache rebuild complete."
WriteSignature ==
    /\ pc = "sign"
    /\ UNCHANGED unitVars
    /\ \E p \in ProgressOutcomes :
         IF p = "raise"
         THEN /\ Raise(RawError("CallbackError", "complete"),
                       PersistSignature(sqlite, signature))
              /\ UNCHANGED planIdx
         ELSE /\ sqlite' = PersistSignature(sqlite, signature)
              /\ pc' = "idle"
              /\ outcome' = "rebuilt"
              /\ err' = NoError
              /\ mysql_conn' = FALSE
              /\ UNCHANGED <<planIdx, chunkIdx, batch, total, written>>
    /\ UNCHANGED <<cfgVars, envVars, callVars, connects>>

----------------------------------------------------------------------------
(* Environment, between two calls *)

\* the dump file is replaced, edited or removed
DumpChanges(d) ==
    /\ pc \in {"new", "ctor_failed", "idle"}
    /\ UNCHANGED unitVars
    /\ d # dumpFile
    /\ dumpFile' = d
    /\ UNCHANGED <<pc, cfgVars, pymysql, sqlite, callVars, mysql_conn,
                   connects, loopVars, outcome, err>>

----------------------------------------------------------------------------

Next ==
    \/ \E bp \in {None, Path}, ms \in {NoSettings, Settings} : Construct(bp, ms)
    \/ \E f \in BOOLEAN, s \in BOOLEAN : EnsureCache(f, s)
    \/ OpenMysqlOk
    \/ OpenMysqlFails
    \/ ConnectStore
    \/ DropTable
    \/ CreateMetadataTable
    \/ ImportStart
    \/ ImportChunk
    \/ ImportFinish
    \/ WriteSignature
    \/ \E d \in DumpVersions \cup {Missing} : DumpChanges(d)

Spec == Init /\ [][Next]_vars

----------------------------------------------------------------------------
(* Vocabulary of the properties *)

\* the table of plan i as a completed import from the current source leaves it
LoadedTable(i) ==
    [exists |-> TRUE, src |-> CurrentSource,
     rows |-> SourceRows(mode, dumpFile, i), indexed |-> TRUE]

\* every plan table of st holds the committed rows of the current source
AllPlansLoaded(st) == \A i \in 1..NumPlans : st.tables[i] = LoadedTable(i)

\* a step that is a call of ensure_cache with force = f
CallStep(f) == \E s \in BOOLEAN : EnsureCache(f, s)

\* in the state after a call step: the call took the "already up to date" return
\* (the notification was issued, whether or not the callback raised)
SkipTaken == outcome = "skipped" \/ (outcome = "error" /\ err.at = "skip")

\* in the state after a call step: the call went on to the rebuild
RebuildEntered == pc = "open" \/ (outcome = "error" /\ err.at = "begin")

\* the dump file still has the content the last call computed its signature from
DumpUnchanged == signature = Sha256(dumpFile)

----------------------------------------------------------------------------
(* C1..C10 *)

\* C1: in dump mode, once a call has completed successfully (rebuilt or
\* skipped) and the dump file still has the same content, a call with
\* force = false takes the "already up to date" return and leaves the whole
\* destination store, plan tables and metadata, exactly as it was.
C1_SecondCallSkipsWithoutWrites ==
    [][ ( /\ CallStep(FALSE)
          /\ mode = "backup"
          /\ outcome \in {"rebuilt", "skipped"}
          /\ DumpUnchanged )
        => ( SkipTaken' /\ sqlite' = sqlite /\ pc' = "idle" ) ]_vars

\* witness of C1: a skipped second call on a store that a rebuild of this
\* importer wrote
C1_Witness ==
    /\ outcome = "skipped" /\ mode = "backup" /\ ~force
    /\ PersistedSignature(sqlite) = Sha256(dumpFile)
    /\ AllPlansLoaded(sqlite)
    /\ sqlite = storeAtStart

\* C2: a call with force = true never takes the "already up to date" return,
\* in both modes and also when the persisted signature equals the computed
\* one: it goes on to the rebuild, and a forced call that completes has
\* loaded every plan table from the source.
C2_ForceAlwaysRebuilds ==
    [][ /\ (CallStep(TRUE) /\ (mode = "backup" => dumpFile # Missing))
            => (RebuildEntered' /\ ~SkipTaken')
        /\ (force /\ outcome' = "rebuilt" /\ outcome # "rebuilt")
            => AllPlansLoaded(sqlite') ]_vars

\* witness of C2: a forced call completed a rebuild although the store it
\* started from already held the computed signature
C2_Witness ==
    /\ outcome = "rebuilt" /\ force
    /\ storeAtStart.kind = "db"
    /\ ReadPersistedSignature(storeAtStart) = signature
    /\ AllPlansLoaded(sqlite)

\* C3: when the store holds the signature of a dump content other than the
\* content now in the dump file, the computed signature differs from the
\* persisted one and a call with force = false goes on to the rebuild; the
\* step that completes a rebuild leaves the signature of the current content
\* persisted.
C3_ChangedDumpIsRebuilt ==
    [][ /\ ( /\ CallStep(FALSE)
             /\ mode = "backup"
             /\ dumpFile # Missing
             /\ \E d0 \in DumpVersions \ {dumpFile} :
                    ReadPersistedSignature(sqlite) = Sha256(d0) )
            => ( /\ signature' # ReadPersistedSignature(sqlite)
                 /\ RebuildEntered' /\ ~SkipTaken' )
        /\ (mode = "backup" /\ outcome' = "rebuilt" /\ outcome # "rebuilt")
            => PersistedSignature(sqlite') = Sha256(dumpFile) ]_vars

\* witness of C3: an unforced call rebuilt a store that held the signature of
\* another dump content, and the store now holds the new signature
C3_Witness ==
    /\ outcome = "rebuilt" /\ ~force /\ mode = "backup"
    /\ DumpUnchanged
    /\ \E d0 \in DumpVersions \ {dumpFile} :
           ReadPersistedSignature(storeAtStart) = Sha256(d0)
    /\ PersistedSignature(sqlite) = Sha256(dumpFile)

\* C4: in dump mode with force = false, when the persisted signature cannot
\* be read (the store is not a database, the metadata table is missing, no
\* signature row exists) or the store file does not exist, the call goes on
\* to the rebuild and no store error leaves the call step.
C4_ReadFailureIsStale ==
    [][ ( /\ CallStep(FALSE)
          /\ mode = "backup"
          /\ dumpFile # Missing
          /\ \/ sqlite.kind = "absent"
             \/ ReadPersistedSignature(sqlite) \in {ReadError, NoSignature} )
        => ( /\ RebuildEntered' /\ ~SkipTaken'
             /\ err'.class # "sqlite3.Error" ) ]_vars

\* witness of C4: an unforced call entered the rebuild from an existing store
\* whose signature could not be read
C4_Witness ==
    /\ pc = "open" /\ ~force /\ mode = "backup"
    /\ storeAtStart.kind # "absent"
    /\ ReadPersistedSignature(storeAtStart) = ReadError

\* the rows a table holds: how many, and read from which source
Contents(t) == <<t.src, t.rows>>

\* the call ended with an exception raised while plan planIdx was imported
AbortedInPlan ==
    /\ outcome = "error"
    /\ err.at \in {"table_start", "read", "write", "batch", "table_end"}

\* C5: when an exception ends a rebuild while plan k is imported, the tables
\* of the plans before k hold their newly imported rows and the tables of the
\* plans after k still hold what they held when the rebuild started.
C5_UnprocessedTablesUntouched ==
    (AbortedInPlan /\ (mode = "backup" => DumpUnchanged))
    => /\ \A j \in 1..NumPlans : j < planIdx => sqlite.tables[j] = LoadedTable(j)
       /\ \A j \in 1..NumPlans :
            j > planIdx => Contents(sqlite.tables[j]) = Contents(storeAtStart.tables[j])

\* C6: the value persisted under source_signature changes only in the step
\* that follows the import and commit of the last plan, when every plan table
\* is loaded; no other step of a rebuild, completed or aborted, changes it.
C6_SignatureWrittenLast ==
    [][ (sqlite'.meta.source_signature # sqlite.meta.source_signature
            \/ sqlite'.meta.backup_sha256 # sqlite.meta.backup_sha256)
        => (pc = "sign" /\ AllPlansLoaded(sqlite)) ]_vars

\* witness of C6: a rebuild aborted after it had reloaded at least one table,
\* and the signature persisted before the rebuild is still the persisted one
C6_Witness ==
    /\ AbortedInPlan /\ planIdx >= 2
    /\ PersistedSignature(storeAtStart) # NoSignature
    /\ PersistedSignature(storeAtStart) # signature
    /\ PersistedSignature(sqlite) = PersistedSignature(storeAtStart)

\* C7: an exception raised by the progress callback never aborts the import:
\* whenever the callback raised during a call that did not skip, every plan
\* table is loaded and the signature of the call is persisted.
C7_ProgressFailureHarmless ==
    (outcome = "error" /\ err.class = "CallbackError" /\ err.at # "skip"
        /\ (mode = "backup" => DumpUnchanged))
    => (AllPlansLoaded(sqlite) /\ PersistedSignature(sqlite) = signature)

\* C8: every failure of ensure_cache that is not the callback's own exception
\* reaches the caller as a DataImportError that names the table being
\* processed and carries the underlying driver message.
C8_FailuresAreDataImportErrors ==
    (outcome = "error" /\ err.class # "CallbackError")
    => (err.class = "DataImportError" /\ err.table # None /\ err.driver)

\* C9: an importer exists only when exactly one of the dump path and the live
\* settings was supplied; supplying neither or both is a configuration error.
C9_ExactlyOneSource ==
    (pc \notin {"new", "ctor_failed"})
    => ((backup_path = Path) # mysql_settings.given)

\* the failure is a configuration or source-availability failure: raised by
\* the constructor, by the read of the dump file for the signature, or by the
\* opening of the live connection
SetupFailure ==
    \/ pc = "ctor_failed"
    \/ (outcome = "error" /\ err.at \in {"signature", "open_mysql"})

\* C10: when a configuration or source-availability failure occurs (no
\* source configured, dump file missing, driver absent, live connection
\* refused), the destination store is exactly what it was when the
\* constructor or the call began: not created, not modified, same signature.
C10_SetupFailuresBeforeStoreIO ==
    SetupFailure => sqlite = storeAtStart

\* witness of C10: the live connection could not be opened and the store
\* file, missing before the call, is still missing
C10_Witness ==
    /\ outcome = "error" /\ err.at = "open_mysql"
    /\ storeAtStart.kind = "absent"
    /\ sqlite.kind = "absent"

----------------------------------------------------------------------------
(* C11..C20 *)

\* len(batch) when the threshold of line 208 is tested for the next statement
\* or page: all its rows have been converted and appended by then
PeakBatch ==
    IF pc = "rows" /\ chunkIdx < Len(CurrentChunks)
    THEN batch + CurrentChunks[chunkIdx + 1]
    ELSE batch

\* C11: every bulk write made inside the loop has exactly 500 rows, the write
\* after the loop has the fewer than 500 rows that remain, and the total
\* reported for the table is the number of rows of the source, so N rows
\* take ceil(N/500) writes, however they are grouped into statements or pages.
C11_WritesOfBatchSize ==
    [][ /\ (pc = "rows" /\ written' > written) => written' - written = BatchSize
        /\ (pc = "rows" /\ pc' \in {"start", "sign"})
            => (batch < BatchSize /\ total' = SourceRows(mode, dumpFile, planIdx)) ]_vars

\* C12: at every point of an import the pending batch holds at most 500
\* converted rows.
C12_PendingBatchBounded == PeakBatch <= BatchSize

----------------------------------------------------------------------------
(* Unit specifications: the importer itself stays parked *)

ParkedImporter ==
    /\ pc = "unit"
    /\ backup_path = None
    /\ mysql_settings = NoSettings
    /\ mode = None
    /\ pymysql = FALSE
    /\ dumpFile = Missing
    /\ sqlite = AbsentStore
    /\ force = FALSE
    /\ sinkRaises = FALSE
    /\ signature = NoSignature
    /\ mysql_conn = FALSE
    /\ connects = 0
    /\ planIdx = 0
    /\ chunkIdx = 0
    /\ batch = 0
    /\ total = 0
    /\ written = 0
    /\ outcome = "none"
    /\ err = NoError
    /\ storeAtStart = AbsentStore

----------------------------------------------------------------------------
(* Rows of one plan table, by primary key: two rebuilds from one source *)

\* longest source of the row-level rebuild
MaxRows == 3
\* number of distinct primary keys
MaxKeys == 2

Keys == 1..MaxKeys
\* a converted row: <<primary key, the other columns>>
KeyedRows == Keys \X {"a", "b"}
\* the rows a source yields, in source order
RowSources == UNION {[1..n -> KeyedRows] : n \in 0..MaxRows}
\* contents of a table: at most one row per primary key
TableContents == {t \in SUBSET KeyedRows : \A r1, r2 \in t : r1[1] = r2[1] => r1 = r2}

\* an INSERT that keeps the row already stored under the key
InsertOrIgnore(tbl, row) ==
    IF \E r \in tbl : r[1] = row[1] THEN tbl ELSE tbl \cup {row}

\* insert_sql of every plan: INSERT OR REPLACE on a table with a PRIMARY KEY
InsertOrReplace(tbl, row) == {r \in tbl : r[1] # row[1]} \cup {row}

\* DROP TABLE IF EXISTS and CREATE TABLE: the table of the plan is empty
DropCreateTable(tbl) == {}

RowRebuildInit ==
    /\ ParkedImporter
    /\ fn = "rebuild"
    /\ arg \in [old : TableContents, src : RowSources]
    /\ ret = [table |-> arg.old, phase |-> "idle", pos |-> 0, passes |-> 0, first |-> {}]

\* lines 138-140 for the table
RowRebuildDrop ==
    /\ fn = "rebuild"
    /\ ret.phase = "idle"
    /\ ret.passes < 2
    /\ ret' = [ret EXCEPT !.table = DropCreateTable(ret.table), !.phase = "loading", !.pos = 0]
    /\ UNCHANGED <<importerVars, fn, arg>>

\* executemany(plan.insert_sql, ...): the next row of the source, in order
RowRebuildInsert ==
    /\ fn = "rebuild"
    /\ ret.phase = "loading"
    /\ ret.pos < Len(arg.src)
    /\ ret' = [ret EXCEPT !.table = InsertOrReplace(ret.table, arg.src[ret.pos + 1]),
                          !.pos = ret.pos + 1]
    /\ UNCHANGED <<importerVars, fn, arg>>

\* the commit of line 219; the result of the first rebuild is remembered
RowRebuildCommit ==
    /\ fn = "rebuild"
    /\ ret.phase = "loading"
    /\ ret.pos = Len(arg.src)
    /\ ret' = [ret EXCEPT !.phase = "idle", !.passes = ret.passes + 1,
                          !.first = IF ret.passes = 0 THEN ret.table ELSE ret.first]
    /\ UNCHANGED <<importerVars, fn, arg>>

RowRebuildNext == RowRebuildDrop \/ RowRebuildInsert \/ RowRebuildCommit

SpecUpsert == RowRebuildInit /\ [][RowRebuildNext]_vars

\* the position of the last row of src with primary key k
LastPosition(src, k) ==
    CHOOSE i \in 1..Len(src) :
        /\ src[i][1] = k
        /\ \A j \in (i + 1)..Len(src) : src[j][1] # k

\* C13: after a completed rebuild every stored row is a row of the source (no
\* row of the previous content survives) and, for every primary key of the
\* source, the stored row is the last source row with that key; a second
\* rebuild from the same source leaves the same set of rows as the first.
C13_RebuildIdempotent ==
    (fn = "rebuild" /\ ret.phase = "idle" /\ ret.passes >= 1)
    => /\ \A r \in ret.table : \E i \in 1..Len(arg.src) : arg.src[i] = r
       /\ \A i \in 1..Len(arg.src) :
            arg.src[LastPosition(arg.src, arg.src[i][1])] \in ret.table
       /\ \A r1, r2 \in ret.table : r1[1] = r2[1] => r1 = r2
       /\ ret.passes = 2 => ret.table = ret.first

\* witness of C13: two rebuilds are done, the previous content held a row
\* that the source lacks, and the source has two rows with one primary key
C13_Witness ==
    /\ fn = "rebuild" /\ ret.phase = "idle" /\ ret.passes = 2
    /\ \E r \in arg.old : \A i \in 1..Len(arg.src) : arg.src[i] # r
    /\ \E i, j \in 1..Len(arg.src) :
          i < j /\ arg.src[i][1] = arg.src[j][1] /\ arg.src[i] # arg.src[j]
    /\ ret.table = ret.first

----------------------------------------------------------------------------
(* _parse_insert_values and _normalise_token on texts.  A text is a sequence *)
(* of characters; a run of ordinary characters (1, a, NULL, ...) and the     *)
(* keywords of a statement are one symbol each.                              *)

\* most tuples of a statement
MaxTuples == 3
\* most fields of a generated tuple
MaxFields == 2

Quote == "'"
Backslash == "\\"
Comma == ","
Space == " "
\* the character csv.reader stores for an escape character at the end of a line
Newline == "<LF>"
\* a token that is Python None
NoneToken == <<"None">>

\* f"INSERT INTO `{table}` VALUES" for the table scanned, and for another table
InsertPrefix == <<"INSERT INTO t VALUES">>
OtherPrefix == <<"INSERT INTO u VALUES">>

\* str.startswith, str.endswith, slicing from n
StartsWith(s, p) == Len(s) >= Len(p) /\ SubSeq(s, 1, Len(p)) = p
EndsWith(s, p) == Len(s) >= Len(p) /\ SubSeq(s, Len(s) - Len(p) + 1, Len(s)) = p
DropFirst(s, n) == SubSeq(s, n + 1, Len(s))

RECURSIVE LStrip(_)
\* str.lstrip()
LStrip(s) == IF s # <<>> /\ Head(s) = Space THEN LStrip(Tail(s)) ELSE s

RECURSIVE RStripChar(_, _)
\* str.rstrip(ch)
RStripChar(s, ch) ==
    IF s # <<>> /\ s[Len(s)] = ch THEN RStripChar(SubSeq(s, 1, Len(s) - 1), ch) ELSE s

\* str.strip()
Strip(s) == LStrip(RStripChar(s, Space))

RECURSIVE SplitTuples(_, _, _, _)
\* lines 299-310: the value list is cut after each ")" that brings depth to 0
SplitTuples(body, rows, current, depth) ==
    IF body = <<>> THEN rows
    ELSE LET ch == Head(body)
             cur == Append(current, ch)
         IN IF ch = "("
            THEN SplitTuples(Tail(body), rows, cur, depth + 1)
            ELSE IF ch = ")"
            THEN IF depth - 1 = 0
                 THEN SplitTuples(Tail(body), Append(rows, Strip(cur)), <<>>, 0)
                 ELSE SplitTuples(Tail(body), rows, cur, depth - 1)
            ELSE SplitTuples(Tail(body), rows, cur, depth)

\* lines 313-315: the parentheses of a fragment that has both are removed
Unwrap(fragment) ==
    IF StartsWith(fragment, <<"(">>) /\ EndsWith(fragment, <<")">>)
    THEN SubSeq(fragment, 2, Len(fragment) - 1)
    ELSE fragment

\* csv.reader with delimiter comma, quotechar single quote, escapechar
\* backslash, doublequote, not strict: the state machine of the reader on one line
CsvStart == [state |-> "START_RECORD", field |-> <<>>, fields |-> <<>>]
CsvSave(r, st) == [state |-> st, field |-> <<>>, fields |-> Append(r.fields, r.field)]
CsvAdd(r, c, st) == [state |-> st, field |-> Append(r.field, c), fields |-> r.fields]
CsvGo(r, st) == [r EXCEPT !.state = st]

CsvChar(r, c) ==
    CASE r.state \in {"START_RECORD", "START_FIELD"} ->
            IF c = Quote THEN CsvGo(r, "IN_QUOTED_FIELD")
            ELSE IF c = Backslash THEN CsvGo(r, "ESCAPED_CHAR")
            ELSE IF c = Comma THEN CsvSave(r, "START_FIELD")
            ELSE CsvAdd(r, c, "IN_FIELD")
      [] r.state = "ESCAPED_CHAR" -> CsvAdd(r, c, "IN_FIELD")
      [] r.state = "IN_FIELD" ->
            IF c = Backslash THEN CsvGo(r, "ESCAPED_CHAR")
            ELSE IF c = Comma THEN CsvSave(r, "START_FIELD")
            ELSE CsvAdd(r, c, "IN_FIELD")
      [] r.state = "IN_QUOTED_FIELD" ->
            IF c = Backslash THEN CsvGo(r, "ESCAPE_IN_QUOTED_FIELD")
            ELSE IF c = Quote THEN CsvGo(r, "QUOTE_IN_QUOTED_FIELD")
            ELSE CsvAdd(r, c, "IN_QUOTED_FIELD")
      [] r.state = "ESCAPE_IN_QUOTED_FIELD" -> CsvAdd(r, c, "IN_QUOTED_FIELD")
      [] r.state = "QUOTE_IN_QUOTED_FIELD" ->
            IF c = Quote THEN CsvAdd(r, c, "IN_QUOTED_FIELD")
            ELSE IF c = Comma THEN CsvSave(r, "START_FIELD")
            ELSE CsvAdd(r, c, "IN_FIELD")

RECURSIVE CsvChars(_, _)
CsvChars(r, line) ==
    IF line = <<>> THEN r ELSE CsvChars(CsvChar(r, Head(line)), Tail(line))

\* the end of the only line: the record is closed, an open field is saved
CsvEnd(r) ==
    CASE r.state = "START_RECORD" -> r
      [] r.state \in {"START_FIELD", "IN_FIELD", "QUOTE_IN_QUOTED_FIELD", "IN_QUOTED_FIELD"} ->
            CsvSave(r, "START_RECORD")
      [] r.state \in {"ESCAPED_CHAR", "ESCAPE_IN_QUOTED_FIELD"} ->
            CsvSave(CsvAdd(r, Newline, r.state), "START_RECORD")

\* list(next(csv.reader([fragment], ...)))
CsvReader(fragment) == CsvEnd(CsvChars(CsvStart, fragment)).fields

\* _parse_insert_values: the rows of field texts, or DataImportError raised
ParseInsertValues(statement, prefix) ==
    IF ~StartsWith(statement, prefix)
    THEN [raised |-> TRUE, rows |-> <<>>]
    ELSE LET payload == LStrip(DropFirst(statement, Len(prefix)))
             body0 == IF StartsWith(payload, <<"VALUES">>)
                      THEN DropFirst(payload, 1) ELSE payload
             body == RStripChar(body0, ";")
             frags == SplitTuples(body, <<>>, <<>>, 0)
         IN [raised |-> FALSE,
             rows |-> [i \in 1..Len(frags) |-> CsvReader(Unwrap(frags[i]))]]

\* str.upper() of one symbol
UpperChar(c) ==
    CASE c \in {"null", "Null"} -> "NULL"
      [] c = "a" -> "A"
      [] c = "b" -> "B"
      [] c = "c" -> "C"
      [] c = "s" -> "S"
      [] OTHER -> c

Upper(s) == [i \in 1..Len(s) |-> UpperChar(s[i])]

\* _normalise_token
NormaliseToken(token) ==
    IF token = NoneToken THEN NoneToken
    ELSE LET value == Strip(token)
         IN IF Upper(value) = <<"NULL">> THEN NoneToken ELSE value

(* The statements given to the parser: value lists as mysqldump writes them, *)
(* and statements that do not have that shape.                               *)

\* the literals a field of a tuple is written with
FieldForms ==
    { <<"1">>, <<"NULL">>, <<"null">>, <<"Null">>,
      <<Quote, "a", Quote>>,
      <<Quote, "NULL", Quote>>,
      <<Quote, "a", Comma, "b", Quote>>,
      <<Quote, "b", Backslash, Quote, "s", Quote>>,
      <<Quote, "a", Backslash, Backslash, Quote>>,
      <<Quote, "a", "(", "b", ")", "c", Quote>>,
      <<Quote, "a", ")", "b", Quote>>,
      <<Quote, "a", "(", "b", Quote>> }

\* the tuple 1,'a','b\'s',NULL
ExampleTuple ==
    << <<"1">>, <<Quote, "a", Quote>>, <<Quote, "b", Backslash, Quote, "s", Quote>>, <<"NULL">> >>

\* a tuple is the sequence of its fields' literals
RawTuples == UNION {[1..n -> FieldForms] : n \in 1..MaxFields} \cup {ExampleTuple}

FillerTuple == << <<"1">> >>

\* value lists of k tuples, one of them any tuple and the others (1)
TupleLists ==
    UNION { UNION { { [j \in 1..k |-> IF j = i THEN t ELSE FillerTuple] : t \in RawTuples }
                    : i \in 1..k }
            : k \in 1..MaxTuples }

RECURSIVE Join(_, _)
Join(parts, sep) ==
    IF parts = <<>> THEN <<>>
    ELSE IF Len(parts) = 1 THEN parts[1]
    ELSE parts[1] \o sep \o Join(Tail(parts), sep)

RenderTuple(t) == <<"(">> \o Join(t, <<Comma>>) \o <<")">>

\* INSERT INTO t VALUES (..),(..),...;
RenderStatement(ts) ==
    InsertPrefix \o <<Space>>
        \o Join([j \in 1..Len(ts) |-> RenderTuple(ts[j])], <<Comma>>) \o <<";">>

\* statements of another table, and value lists that are not balanced tuples
MalformedStatements ==
    { OtherPrefix \o <<Space, "(", "1", ")", ";">>,
      <<"CREATE TABLE t", Space, "(", "1", ")", ";">>,
      InsertPrefix \o <<Space, "(", "1", Comma, "1">>,
      InsertPrefix \o <<Space, "(", "1", Comma, "1", ";">>,
      InsertPrefix \o <<Space, "1", Comma, "1", ")", ";">>,
      InsertPrefix \o <<Space, "1", Comma, "1", ";">>,
      InsertPrefix \o <<Space, "(", "(", "1", ")", ";">>,
      InsertPrefix \o <<Space, "(", "1", ")", ")", ";">> }

ParseInputs ==
    { [shape |-> "tuples", tuples |-> ts, statement |-> RenderStatement(ts)] : ts \in TupleLists }
    \cup { [shape |-> "malformed", tuples |-> <<>>, statement |-> st] : st \in MalformedStatements }

ParsePending == [state |-> "pending", raised |-> FALSE, rows |-> <<>>, tokens |-> <<>>]

ParseInit ==
    /\ ParkedImporter
    /\ fn = "parse"
    /\ arg \in ParseInputs
    /\ ret = ParsePending

\* _parse_insert_values(statement, target)
ParseStatement ==
    /\ fn = "parse"
    /\ ret.state = "pending"
    /\ LET r == ParseInsertValues(arg.statement, InsertPrefix)
       IN ret' = [state |-> IF r.raised THEN "raised" ELSE "parsed",
                  raised |-> r.raised, rows |-> r.rows, tokens |-> <<>>]
    /\ UNCHANGED <<importerVars, fn, arg>>

\* _import_table, lines 202-207: every token of every row goes through
\* _normalise_token before its converter
NormaliseRows ==
    /\ fn = "parse"
    /\ ret.state = "parsed"
    /\ ret' = [ret EXCEPT !.state = "normalised",
                          !.tokens = [i \in 1..Len(ret.rows) |->
                                        [j \in 1..Len(ret.rows[i]) |->
                                            NormaliseToken(ret.rows[i][j])]]]
    /\ UNCHANGED <<importerVars, fn, arg>>

ParseNext == ParseStatement \/ NormaliseRows

SpecParse == ParseInit /\ [][ParseNext]_vars

(* C14..C18: what a dump statement means *)

RECURSIVE Unescape(_)
\* the text of a quoted literal's inside: \c is c, '' is '
Unescape(s) ==
    IF s = <<>> THEN <<>>
    ELSE IF Len(s) >= 2 /\ Head(s) = Backslash THEN <<s[2]>> \o Unescape(DropFirst(s, 2))
    ELSE IF Len(s) >= 2 /\ Head(s) = Quote /\ s[2] = Quote THEN <<Quote>> \o Unescape(DropFirst(s, 2))
    ELSE <<Head(s)>> \o Unescape(Tail(s))

IsQuoted(lit) == Len(lit) >= 2 /\ Head(lit) = Quote /\ lit[Len(lit)] = Quote

\* the field token of a literal: a quoted literal without its quotes and escapes
FieldToken(lit) == IF IsQuoted(lit) THEN Unescape(SubSeq(lit, 2, Len(lit) - 1)) ELSE lit

TupleTokens(t) == [j \in 1..Len(t) |-> FieldToken(t[j])]

\* the rows the parser returns for the statement whose only tuple is t
AloneRows(t) == ParseInsertValues(RenderStatement(<<t>>), InsertPrefix).rows

Parsed == fn = "parse" /\ ret.state \in {"parsed", "normalised"}

Normalised == fn = "parse" /\ ret.state = "normalised"

HasParen(lit) == IsQuoted(lit) /\ \E j \in 1..Len(lit) : lit[j] \in {"(", ")"}

\* value lists none of whose quoted fields holds a parenthesis
NoParenLiterals(ts) ==
    \A i \in 1..Len(ts) : \A j \in 1..Len(ts[i]) : ~HasParen(ts[i][j])

\* C14: a value list of k tuples parses to k rows, and row i is what tuple i
\* parses to as the only tuple of a statement, at every position i
C14_RowPerTuple ==
    (Parsed /\ arg.shape = "tuples" /\ NoParenLiterals(arg.tuples)) =>
        /\ Len(ret.rows) = Len(arg.tuples)
        /\ \A i \in 1..Len(arg.tuples) : << ret.rows[i] >> = AloneRows(arg.tuples[i])

\* C15: a tuple with a quoted field that holds parentheses, balanced or not,
\* parses to one row whose fields are the tuple's field tokens
C15_ParenInsideQuotes ==
    (/\ Parsed
     /\ arg.shape = "tuples"
     /\ Len(arg.tuples) = 1
     /\ \E j \in 1..Len(arg.tuples[1]) : HasParen(arg.tuples[1][j]))
        => ret.rows = << TupleTokens(arg.tuples[1]) >>

\* C16: every quoted literal of a tuple comes back as one field of the tuple's
\* row, unquoted and with its escapes resolved, whatever commas, quotes or
\* backslashes it holds; the tuple 1,'a','b\'s',NULL gives 1, a, b's, null
C16_QuotedFieldStaysOneField ==
    (Normalised /\ arg.shape = "tuples" /\ NoParenLiterals(arg.tuples)) =>
        \A i \in 1..Len(arg.tuples) :
            /\ i <= Len(ret.rows)
            /\ \A j \in 1..Len(arg.tuples[i]) :
                  IsQuoted(arg.tuples[i][j])
                      => \E f \in 1..Len(ret.rows[i]) :
                            ret.rows[i][f] = FieldToken(arg.tuples[i][j])
            /\ arg.tuples[i] = ExampleTuple
                  => ret.tokens[i] = << <<"1">>, <<"a">>, <<"b", Quote, "s">>, NoneToken >>

\* C17: a normalised field is null exactly when its literal is the unquoted
\* token NULL; 'NULL', null and Null stay text
C17_OnlyBareNullIsNull ==
    (/\ Normalised
     /\ arg.shape = "tuples"
     /\ Len(arg.tuples) = 1
     /\ Len(ret.tokens) = 1
     /\ Len(ret.tokens[1]) = Len(arg.tuples[1]))
        => \A j \in 1..Len(arg.tuples[1]) :
              (ret.tokens[1][j] = NoneToken) <=> (arg.tuples[1][j] = <<"NULL">>)

\* C18: a statement that is not the prefix followed by balanced parenthesised
\* tuples makes the parser raise DataImportError
C18_MalformedRaises ==
    (fn = "parse" /\ ret.state # "pending" /\ arg.shape = "malformed") => ret.raised

----------------------------------------------------------------------------
(* _to_float and _to_int on tokens.  A token is None or a text; the symbols  *)
(* of a text are a space, a sign, the digit 1, the point, the exponent e999, *)
(* the words inf and nan, and a letter.                                      *)

\* most symbols of a token
MaxTokenLen == 4

TokenSymbols == {Space, "-", "1", ".", "e999", "inf", "nan", "x"}
Tokens == UNION {[1..n -> TokenSymbols] : n \in 0..MaxTokenLen} \cup {NoneToken}

\* a number: sign * mant * 10^exp, or an infinity, or not-a-number
Number(kind, sign, mant, exp) == [kind |-> kind, sign |-> sign, mant |-> mant, exp |-> exp]
FloatZero == Number("float", 1, 0, 0)
IntZero == Number("int", 1, 0, 0)
NoNumber == Number("none", 1, 0, 0)

RECURSIVE Repunit(_)
\* the number written with n digits 1
Repunit(n) == IF n = 0 THEN 0 ELSE 10 * Repunit(n - 1) + 1

RECURSIVE Pow10(_)
Pow10(n) == IF n = 0 THEN 1 ELSE 10 * Pow10(n - 1)

Count(s, c) == Cardinality({i \in 1..Len(s) : s[i] = c})

\* float(text): the number text is written for, or ValueError.  Digits after
\* the exponent e999 make it larger; a number with such an exponent is beyond
\* the largest float and reads as an infinity.
PyFloat(text) ==
    LET s == Strip(text)
        neg == s # <<>> /\ Head(s) = "-"
        sign == IF neg THEN -1 ELSE 1
        body == IF neg THEN Tail(s) ELSE s
        hasExp == \E i \in 1..Len(body) : body[i] = "e999"
        expAt == IF hasExp THEN CHOOSE i \in 1..Len(body) :
                                    body[i] = "e999" /\ \A k \in 1..(i - 1) : body[k] # "e999"
                 ELSE Len(body) + 1
        m == SubSeq(body, 1, expAt - 1)
        expDigits == SubSeq(body, expAt + 1, Len(body))
        point == IF Count(m, ".") = 1 THEN CHOOSE i \in 1..Len(m) : m[i] = "." ELSE Len(m) + 1
        frac == IF Len(m) >= point THEN Len(m) - point ELSE 0
        digits == Count(m, "1")
    IN  IF body = <<"inf">> THEN [error |-> FALSE, v |-> Number("inf", sign, 0, 0)]
        ELSE IF body = <<"nan">> THEN [error |-> FALSE, v |-> Number("nan", 1, 0, 0)]
        ELSE IF /\ \A i \in 1..Len(m) : m[i] \in {"1", "."}
                /\ \A i \in 1..Len(expDigits) : expDigits[i] = "1"
                /\ Count(m, ".") <= 1
                /\ digits >= 1
        THEN IF hasExp
             THEN [error |-> FALSE, v |-> Number("inf", sign, 0, 0)]
             ELSE [error |-> FALSE, v |-> Number("float", sign, Repunit(digits), 0 - frac)]
        ELSE [error |-> TRUE, v |-> NoNumber]

\* int(x) of a float: truncation, OverflowError for an infinity, ValueError
\* for not-a-number
PyInt(x) ==
    CASE x.kind = "inf" -> [error |-> "OverflowError", v |-> NoNumber]
      [] x.kind = "nan" -> [error |-> "ValueError", v |-> NoNumber]
      [] OTHER ->
            LET n == IF x.exp >= 0 THEN x.mant * Pow10(x.exp) ELSE x.mant \div Pow10(0 - x.exp)
            IN [error |-> "none", v |-> Number("int", IF n = 0 THEN 1 ELSE x.sign, n, 0)]

\* _to_float
ToFloat(value) ==
    IF value = NoneToken \/ value = <<>> THEN [raised |-> FALSE, v |-> FloatZero]
    ELSE LET f == PyFloat(value)
         IN IF f.error THEN [raised |-> FALSE, v |-> FloatZero]
            ELSE [raised |-> FALSE, v |-> f.v]

\* _to_int: only ValueError is caught
ToInt(value) ==
    IF value = NoneToken \/ value = <<>> THEN [raised |-> FALSE, v |-> IntZero]
    ELSE LET f == PyFloat(value)
         IN IF f.error THEN [raised |-> FALSE, v |-> IntZero]
            ELSE LET n == PyInt(f.v)
                 IN CASE n.error = "ValueError" -> [raised |-> FALSE, v |-> IntZero]
                      [] n.error = "OverflowError" -> [raised |-> TRUE, v |-> NoNumber]
                      [] OTHER -> [raised |-> FALSE, v |-> n.v]

Converters == {"_to_float", "_to_int"}

ConvertInit ==
    /\ ParkedImporter
    /\ fn = "convert"
    /\ arg \in [converter : Converters, token : Tokens]
    /\ ret = [state |-> "pending", raised |-> FALSE, v |-> NoNumber]

\* converter(token) with _to_float
ConvertFloat ==
    /\ fn = "convert"
    /\ ret.state = "pending"
    /\ arg.converter = "_to_float"
    /\ LET r == ToFloat(arg.token)
       IN ret' = [state |-> "done", raised |-> r.raised, v |-> r.v]
    /\ UNCHANGED <<importerVars, fn, arg>>

\* converter(token) with _to_int
ConvertInt ==
    /\ fn = "convert"
    /\ ret.state = "pending"
    /\ arg.converter = "_to_int"
    /\ LET r == ToInt(arg.token)
       IN ret' = [state |-> "done", raised |-> r.raised, v |-> r.v]
    /\ UNCHANGED <<importerVars, fn, arg>>

ConvertNext == ConvertFloat \/ ConvertInt

SpecConvert == ConvertInit /\ [][ConvertNext]_vars

Converted == fn = "convert" /\ ret.state = "done"

\* tokens that are null, empty, or no notation of a number for float()
NotANumber(token) == token = NoneToken \/ token = <<>> \/ PyFloat(token).error

\* C19: no conversion raises, for any token (inf, nan and 1e999 included), and
\* null, the empty text and every text that is not a number convert to zero
C19_ConversionNeverRaises ==
    Converted =>
        /\ ~ret.raised
        /\ NotANumber(arg.token) => ret.v \in {FloatZero, IntZero}

----------------------------------------------------------------------------
(* The plan registry, in the order of Plans, and the preparation of one      *)
(* source row for its insert statement.                                      *)

\* create_sql: the destination columns of each plan, in order
PlanColumns ==
    << << "icpassport", "name", "receipt_name", "preferred_name", "company",
          "phone_fixed", "phone_mobile", "email" >>,
       << "paycode", "description" >>,
       << "id", "name", "category", "selling_price", "removed", "is_service",
          "unit_cost" >>,
       << "rcpt_id", "issued", "patient_id", "total", "subtotal", "gst",
          "payment_code", "remark", "removed", "discount", "rounding",
          "consult_fees", "done_by", "department_type", "settled_by",
          "tax_total" >>,
       << "id", "rcpt_id", "item_id", "qty", "unit_price", "subtotal",
          "discount", "username", "remark" >> >>

\* insert_sql: the placeholders of each plan
PlanPlaceholders ==
    << << "?", "?", "?", "?", "?", "?", "?", "?" >>,
       << "?", "?" >>,
       << "?", "?", "?", "?", "?", "?", "?" >>,
       << "?", "?", "?", "?", "?", "?", "?", "?", "?", "?", "?", "?", "?",
          "?", "?", "?" >>,
       << "?", "?", "?", "?", "?", "?", "?", "?", "?" >> >>

\* an index map whose last patients index is past the selected columns
PlanIndexMapOutOfRange ==
    << << 1, 2, 21, 29, 16, 10, 11, 44 >>,
       << 0, 1 >>,
       << 0, 1, 3, 4, 5, 6, 23 >>,
       << 0, 1, 2, 4, 9, 10, 5, 7, 8, 16, 18, 3, 17, 20, 14, 15 >>,
       << 0, 1, 2, 3, 4, 5, 18, 10, 8 >> >>

\* index_map: the source index of each destination column
PlanIndexMap ==
    << << 1, 2, 21, 29, 16, 10, 11, 30 >>,
       << 0, 1 >>,
       << 0, 1, 3, 4, 5, 6, 23 >>,
       << 0, 1, 2, 4, 9, 10, 5, 7, 8, 16, 18, 3, 17, 20, 14, 15 >>,
       << 0, 1, 2, 3, 4, 5, 18, 10, 8 >> >>

\* converters: the converter of each destination column
PlanConverters ==
    << << "_to_clean_str", "_to_clean_str", "_to_clean_str", "_to_clean_str",
          "_to_clean_str", "_to_clean_str", "_to_clean_str", "_to_clean_str" >>,
       << "_to_clean_str", "_to_clean_str" >>,
       << "_to_clean_str", "_to_clean_str", "_to_clean_str", "_to_float",
          "_to_int", "_to_int", "_to_float" >>,
       << "_to_clean_str", "_to_clean_str", "_to_clean_str", "_to_float",
          "_to_float", "_to_float", "_to_clean_str", "_to_clean_str",
          "_to_int", "_to_float", "_to_float", "_to_float", "_to_clean_str",
          "_to_clean_str", "_to_clean_str", "_to_float" >>,
       << "_to_int", "_to_clean_str", "_to_clean_str", "_to_int",
          "_to_float", "_to_float", "_to_float", "_to_clean_str",
          "_to_clean_str" >> >>

\* select_columns: the source columns read in live mode
PlanSelectColumns ==
    << << "register_date", "icpassport", "name", "sex", "DOB", "address",
          "city", "state", "country", "postcode", "phone_fixed",
          "phone_mobile", "remark", "medical_illness", "occupation",
          "removed", "company", "photo", "race", "marketing", "source",
          "receipt_name", "Title", "PatientStatus", "EmergencyContact",
          "EmergencyPhoneNo", "BillingType", "companyaddress",
          "companycontact", "preferredname", "Emailaddress", "Memberid",
          "app_doublevalue", "username", "modified_date", "language",
          "contact_relation", "religion", "pat_id", "national", "lastName",
          "ref_id", "priority_id", "fingerprint" >>,
       << "paycode", "description" >>,
       << "id", "name", "company", "category", "selling_price", "removed",
          "is_service", "dose", "times", "day", "procedure", "is_print",
          "proposed_qty", "proposed_remark", "doseqty", "timesqty",
          "stockcode", "alternatecode", "username", "modified_date",
          "restock_level", "ratio", "tax_code", "unit_cost", "commission",
          "is_restrict" >>,
       << "rcpt_id", "issued", "patient_id", "consult_fees", "total",
          "payment", "Billed", "Remark", "removed", "subtotal", "gst",
          "itemize", "username", "modified_date", "settledby", "tax_total",
          "disc_total", "done_by", "rounding", "mr_id", "department_type",
          "printed_name" >>,
       << "ID", "rcpt_id", "item", "qty", "unitprice", "subtotal", "DoseID",
          "TimesID", "rcpt_remark", "day", "username", "doseqty", "timesqty",
          "bodypart", "pres_check", "modified_date", "tax_subtotal",
          "disc_amount", "unit_fixed_cost", "commission" >> >>


\* the widest source row considered
MaxRowWidth == 44

\* a destination value whose source index is past the end of the row
MissingSource == -1

Min(a, b) == IF a <= b THEN a ELSE b

CarriageReturn == "<CR>"

RECURSIVE ReplaceCrLf(_)
\* str.replace("\r\n", "\n")
ReplaceCrLf(s) ==
    IF Len(s) < 2 THEN s
    ELSE IF s[1] = CarriageReturn /\ s[2] = Newline
    THEN <<Newline>> \o ReplaceCrLf(SubSeq(s, 3, Len(s)))
    ELSE <<s[1]>> \o ReplaceCrLf(Tail(s))

RECURSIVE StripWhitespace(_)
\* str.strip() of a text that may hold line ends
StripWhitespace(s) ==
    IF s = <<>> THEN s
    ELSE IF Head(s) \in {Space, Newline, CarriageReturn} THEN StripWhitespace(Tail(s))
    ELSE IF s[Len(s)] \in {Space, Newline, CarriageReturn}
    THEN StripWhitespace(SubSeq(s, 1, Len(s) - 1))
    ELSE s

\* _to_clean_str
ToCleanStr(value) ==
    IF value = NoneToken THEN [raised |-> FALSE, v |-> <<>>]
    ELSE [raised |-> FALSE, v |-> StripWhitespace(ReplaceCrLf(value))]

\* the converter named in a plan, applied to a normalised token
Convert(converter, value) ==
    CASE converter = "_to_clean_str" -> ToCleanStr(value)
      [] converter = "_to_float" -> ToFloat(value)
      [] converter = "_to_int" -> ToInt(value)

\* raw_row[source_index] without the test of the length: IndexError
SourceTokenUnguarded(raw_row, source_index) ==
    IF source_index < Len(raw_row)
    THEN [raised |-> FALSE, token |-> raw_row[source_index + 1]]
    ELSE [raised |-> TRUE, token |-> NoneToken]

\* line 205: the field at source_index, None when the row is shorter
SourceToken(raw_row, source_index) ==
    IF source_index < Len(raw_row)
    THEN [raised |-> FALSE, token |-> raw_row[source_index + 1]]
    ELSE [raised |-> FALSE, token |-> NoneToken]

\* the fields a statement or a page gave for one row
FieldTokens == { <<"1">>, <<Space, "1", Space>>, <<"NULL">> }

RawRow(width, field) == [i \in 1..width |-> field]

\* lines 203-207: zip(index_map, converters) over a raw row
PreparedRow(p, raw_row) ==
    [k \in 1..Min(Len(PlanIndexMap[p]), Len(PlanConverters[p])) |->
        LET t == SourceToken(raw_row, PlanIndexMap[p][k])
            c == Convert(PlanConverters[p][k], NormaliseToken(t.token))
        IN  [source |-> IF PlanIndexMap[p][k] < Len(raw_row)
                        THEN PlanIndexMap[p][k] ELSE MissingSource,
             converter |-> PlanConverters[p][k],
             raised |-> t.raised \/ c.raised,
             value |-> c.v]]

\* a live row has one value per selected column; a dump row has the fields
\* its statement wrote
RowWidths(p, path) ==
    IF path = "live" THEN {Len(PlanSelectColumns[p])} ELSE 0..MaxRowWidth

PrepareInit ==
    /\ ParkedImporter
    /\ fn = "prepare"
    /\ \E p \in 1..NumPlans, path \in {"dump", "live"} :
          \E w \in RowWidths(p, path), f \in FieldTokens :
             arg = [plan |-> p, path |-> path, width |-> w, field |-> f]
    /\ ret = [state |-> "pending", prepared |-> <<>>]

\* _import_table: one row is prepared and appended to the batch
PrepareRow ==
    /\ fn = "prepare"
    /\ ret.state = "pending"
    /\ LET prepared == PreparedRow(arg.plan, RawRow(arg.width, arg.field))
       IN  ret' = [state |-> IF \E k \in 1..Len(prepared) : prepared[k].raised
                             THEN "raised" ELSE "prepared",
                   prepared |-> prepared]
    /\ UNCHANGED <<importerVars, fn, arg>>

\* conn.executemany(insert_sql, batch): sqlite3 raises unless the tuple has one
\* value per placeholder and the statement one value per column of the table
InsertRow ==
    /\ fn = "prepare"
    /\ ret.state = "prepared"
    /\ ret' = [ret EXCEPT !.state =
                  IF /\ Len(ret.prepared) = Len(PlanPlaceholders[arg.plan])
                     /\ Len(PlanPlaceholders[arg.plan]) = Len(PlanColumns[arg.plan])
                  THEN "inserted" ELSE "raised"]
    /\ UNCHANGED <<importerVars, fn, arg>>

PrepareNext == PrepareRow \/ InsertRow

SpecPrepare == PrepareInit /\ [][PrepareNext]_vars

\* C20: in every plan the index map, the converters, the destination columns
\* and the placeholders have one length, and every index is smaller than the
\* number of columns selected in live mode; so a prepared row has one value per
\* column, its insert is accepted, and in live mode no value lacks its source
C20_PlansWellFormed ==
    /\ \A p \in 1..NumPlans :
          /\ Len(PlanIndexMap[p]) = Len(PlanConverters[p])
          /\ Len(PlanIndexMap[p]) = Len(PlanColumns[p])
          /\ Len(PlanIndexMap[p]) = Len(PlanPlaceholders[p])
          /\ \A k \in 1..Len(PlanIndexMap[p]) :
                PlanIndexMap[p][k] >= 0 /\ PlanIndexMap[p][k] < Len(PlanSelectColumns[p])
    /\ (fn = "prepare" /\ ret.state # "pending") =>
          /\ ret.state # "raised"
          /\ Len(ret.prepared) = Len(PlanColumns[arg.plan])
          /\ arg.path = "live" =>
                \A k \in 1..Len(ret.prepared) : ret.prepared[k].source # MissingSource

\* a live patients row, the widest of the registry, was prepared and inserted
C20_Witness ==
    /\ fn = "prepare"
    /\ arg.path = "live"
    /\ Plans[arg.plan] = "patients"
    /\ ret.state = "inserted"
    /\ Len(ret.prepared) = 8
    /\ ret.prepared[8].source = 30

----------------------------------------------------------------------------
(* C21..C30 *)

\* C21: in live mode a call with force = false, on a store whose persisted
\* signature equals the connection descriptor, takes the "already up to date"
\* return and does not rebuild; only a forced call rebuilds
C21_LiveRefreshOnlyWhenForced ==
    [][ ( /\ CallStep(FALSE)
          /\ mode = "mysql"
          /\ sqlite.kind = "db"
          /\ ReadPersistedSignature(sqlite) = MysqlDescriptor(mysql_settings) )
        => ( SkipTaken' /\ ~RebuildEntered' ) ]_vars

\* C23: in dump mode, whenever a call with force = false has taken the
\* "already up to date" return and the dump still has the content the call
\* saw, every plan table holds the rows of that dump: none is missing, empty
\* or partially loaded
C23_SkipOnlyOnCompleteCache ==
    (mode = "backup" /\ SkipTaken /\ pc = "idle" /\ DumpUnchanged)
        => AllPlansLoaded(sqlite)

\* a rebuild is between its first statement on the store and its return
Rebuilding == outcome = "running" /\ pc \in {"drop", "meta", "start", "rows", "sign"}

\* C29: what another connection reads during a rebuild is the store in place:
\* once the drop loop is over, the tables of the plans already imported hold
\* their new rows and all the others are empty, and as long as the rebuild
\* runs the metadata holds the signature it held before; the signature is
\* written only when every plan table is loaded
C29_ReadersSeeRebuildInPlace ==
    /\ (Rebuilding /\ pc \in {"start", "rows"}) =>
          /\ \A j \in 1..NumPlans : j < planIdx => sqlite.tables[j] = LoadedTable(j)
          /\ \A j \in 1..NumPlans : j >= planIdx => Contents(sqlite.tables[j]) = Contents(EmptyTable)
    /\ Rebuilding =>
          /\ sqlite.meta.source_signature = storeAtStart.meta.source_signature
          /\ sqlite.meta.backup_sha256 = storeAtStart.meta.backup_sha256
    /\ (Rebuilding /\ pc = "sign") => AllPlansLoaded(sqlite)

\* witness of C29: the third plan is being imported from a changed dump; two
\* tables hold the new rows, three are empty, and the metadata still holds the
\* signature of the previous dump
C29_Witness ==
    /\ Rebuilding /\ pc = "rows" /\ planIdx = 3
    /\ mode = "backup"
    /\ sqlite.tables[2] = LoadedTable(2)
    /\ sqlite.tables[3].rows = 0 /\ sqlite.tables[5].rows = 0
    /\ storeAtStart.tables[5].rows > 0
    /\ sqlite.meta.source_signature # NoSignature
    /\ sqlite.meta.source_signature # signature

----------------------------------------------------------------------------
(* _current_signature in live mode, on settings that carry credentials *)

\* a key the settings dict does not have
Absent == "<absent>"

LiveSettings ==
    [host : {Absent, "db.clinic"},
     port : {Absent, "3307"},
     database : {Absent, "clinic2"},
     user : {Absent, "root", "alice"},
     password : {"secret", "hunter2"}]

\* dict.get(key, default)
Get(cfg, key, default) == IF cfg[key] = Absent THEN default ELSE cfg[key]

\* a descriptor that names the account
LiveSignatureWithUser(cfg) ==
    << "mysql://", Get(cfg, "user", ""), "@", Get(cfg, "host", "localhost"), ":",
       Get(cfg, "port", "3306"), "/", Get(cfg, "database", "clinicdb") >>

\* lines 117-122: "mysql://{host}:{port}/{database}", as the sequence of its parts
LiveSignature(cfg) ==
    << "mysql://", Get(cfg, "host", "localhost"), ":",
       Get(cfg, "port", "3306"), "/", Get(cfg, "database", "clinicdb") >>

SignatureInit ==
    /\ ParkedImporter
    /\ fn = "signature"
    /\ arg \in [a : LiveSettings, b : LiveSettings]
    /\ ret = [state |-> "pending", sa |-> <<>>, sb |-> <<>>, persisted |-> <<>>]

\* two importers, configured with a and with b, compute their signatures
ComputeSignatures ==
    /\ fn = "signature"
    /\ ret.state = "pending"
    /\ ret' = [ret EXCEPT !.state = "computed",
                          !.sa = LiveSignature(arg.a),
                          !.sb = LiveSignature(arg.b)]
    /\ UNCHANGED <<importerVars, fn, arg>>

\* lines 148-152: the rebuild of the first importer stores its signature as
\* the value of the source_signature row
StoreSignature ==
    /\ fn = "signature"
    /\ ret.state = "computed"
    /\ ret' = [ret EXCEPT !.state = "persisted", !.persisted = ret.sa]
    /\ UNCHANGED <<importerVars, fn, arg>>

SignatureNext == ComputeSignatures \/ StoreSignature

SpecSignature == SignatureInit /\ [][SignatureNext]_vars

\* the settings name the same host, port and database
SameTarget(a, b) == a.host = b.host /\ a.port = b.port /\ a.database = b.database

\* the user and the password of the settings
Credentials(cfg) == {cfg.user, cfg.password} \ {Absent}

\* C22: settings that differ only in user or password give the same live
\* signature, and no part of the signature that the rebuild persists is the
\* user or the password
C22_SignatureIgnoresCredentials ==
    (fn = "signature" /\ ret.state # "pending") =>
        /\ SameTarget(arg.a, arg.b) => ret.sa = ret.sb
        /\ \A i \in 1..Len(ret.persisted) : ret.persisted[i] \notin Credentials(arg.a)
        /\ \A i \in 1..Len(ret.sb) : ret.sb[i] \notin Credentials(arg.b)

\* witness of C22: two accounts on the same database, one signature, persisted
C22_Witness ==
    /\ fn = "signature" /\ ret.state = "persisted"
    /\ SameTarget(arg.a, arg.b)
    /\ arg.a.host = "db.clinic"
    /\ arg.a.user = "root" /\ arg.b.user = "alice"
    /\ arg.a.password # arg.b.password
    /\ ret.persisted = ret.sb
    /\ ret.persisted = <<"mysql://", "db.clinic", ":", "3306", "/", "clinicdb">>

----------------------------------------------------------------------------
(* _iter_table_rows_backup: the scan of the dump file for one table.  The    *)
(* file is a sequence of lines, a line a sequence of symbols.                *)

\* most lines of a dump file
MaxLines == 4

\* the tables whose statements the files hold
ScanTables == {"receipts", "receipt_items"}

Backquote == "<backquote>"

\* a table name as text: the two names share their first part
TableName(t) == IF t = "receipts" THEN <<"receipt", "s">> ELSE <<"receipt", "_items">>

\* a prefix that stops inside the table name
TargetByStem(t) == <<"INSERT INTO ", Backquote, TableName(t)[1]>>

\* line 243: INSERT INTO, the table name between backquotes, VALUES
Target(t) == <<"INSERT INTO ", Backquote>> \o TableName(t) \o <<Backquote, " VALUES">>

\* the lines of the files: blank, a whole statement with blanks around it, the
\* first line of a longer statement, the same two for the other table, a
\* continuation line, a last line, and a line cut inside a tuple
ScanLines ==
    { <<Space>>,
      <<Space>> \o Target("receipts") \o <<Space, "(", "1", ")", ";", Space>>,
      Target("receipts") \o <<Space, "(", "1", ")", Comma>>,
      Target("receipt_items") \o <<Space, "(", "1", ")", ";">>,
      Target("receipt_items") \o <<Space, "(", "1", ")", Comma>>,
      <<"(", "1", ")", Comma>>,
      <<"(", "1", ")", ";">>,
      <<"(", "1">> }

DumpFiles == UNION {[1..n -> ScanLines] : n \in 0..MaxLines}

\* buffer is None
NoBuffer == <<"None">>

Scanner(buffer, emitted) == [buffer |-> buffer, emitted |-> emitted]

\* a scanner that ends a statement only on a later line
ScanStepNoSameLine(sc, line, target) ==
    LET stripped == Strip(line)
    IN  IF stripped = <<>> THEN sc
        ELSE IF sc.buffer # NoBuffer
        THEN IF EndsWith(stripped, <<";">>)
             THEN Scanner(NoBuffer, Append(sc.emitted, sc.buffer \o stripped))
             ELSE Scanner(sc.buffer \o stripped, sc.emitted)
        ELSE IF StartsWith(stripped, target)
        THEN Scanner(stripped, sc.emitted)
        ELSE sc

\* lines 246-258: one line of the file
ScanStep(sc, line, target) ==
    LET stripped == Strip(line)
    IN  IF stripped = <<>> THEN sc
        ELSE IF sc.buffer # NoBuffer
        THEN IF EndsWith(stripped, <<";">>)
             THEN Scanner(NoBuffer, Append(sc.emitted, sc.buffer \o stripped))
             ELSE Scanner(sc.buffer \o stripped, sc.emitted)
        ELSE IF StartsWith(stripped, target)
        THEN IF EndsWith(stripped, <<";">>)
             THEN Scanner(NoBuffer, Append(sc.emitted, stripped))
             ELSE Scanner(stripped, sc.emitted)
        ELSE sc

\* a scanner that forgets an unfinished statement at the end of the file
ScanFinishDropping(sc) == sc

\* lines 259-260: the end of the file
ScanFinish(sc) ==
    IF sc.buffer # NoBuffer /\ sc.buffer # <<>>
    THEN Scanner(sc.buffer, Append(sc.emitted, sc.buffer))
    ELSE sc

ScanInit ==
    /\ ParkedImporter
    /\ fn = "scan"
    /\ arg \in [file : DumpFiles, table : ScanTables]
    /\ ret = [state |-> "scanning", pos |-> 0, buffer |-> NoBuffer, emitted |-> <<>>,
              rows |-> <<>>, raised |-> FALSE]

\* the scanner after sc: each statement it emitted is parsed where it is yielded
Scanned(sc, state, pos) ==
    LET new == IF Len(sc.emitted) > Len(ret.emitted)
               THEN <<ParseInsertValues(sc.emitted[Len(sc.emitted)], Target(arg.table))>>
               ELSE <<>>
    IN  [state |-> IF new # <<>> /\ new[1].raised THEN "raised" ELSE state,
         pos |-> pos,
         buffer |-> sc.buffer,
         emitted |-> sc.emitted,
         rows |-> IF new = <<>> THEN ret.rows ELSE Append(ret.rows, new[1].rows),
         raised |-> new # <<>> /\ new[1].raised]

\* the loop of line 246 reads one more line
ScanLine ==
    /\ fn = "scan"
    /\ ret.state = "scanning"
    /\ ret.pos < Len(arg.file)
    /\ ret' = Scanned(ScanStep(Scanner(ret.buffer, ret.emitted),
                               arg.file[ret.pos + 1], Target(arg.table)),
                      "scanning", ret.pos + 1)
    /\ UNCHANGED <<importerVars, fn, arg>>

\* the file is exhausted
ScanEnd ==
    /\ fn = "scan"
    /\ ret.state = "scanning"
    /\ ret.pos = Len(arg.file)
    /\ ret' = Scanned(ScanFinish(Scanner(ret.buffer, ret.emitted)), "done", ret.pos)
    /\ UNCHANGED <<importerVars, fn, arg>>

ScanNext == ScanLine \/ ScanEnd

SpecScan == ScanInit /\ [][ScanNext]_vars

(* C24..C26: the statements of a file, told from its lines *)

Stripped(f, i) == Strip(f[i])

\* line i ends a statement that is open when it is read
Terminates(f, i) == Stripped(f, i) # <<>> /\ EndsWith(Stripped(f, i), <<";">>)

RECURSIVE IsStart(_, _, _)
\* line i is the first line of a statement of the table of prefix tg: it starts
\* with tg and every statement of the table that started before has ended
IsStart(f, tg, i) ==
    /\ StartsWith(Stripped(f, i), tg)
    /\ \A j \in 1..(i - 1) :
          IsStart(f, tg, j) => \E k \in j..(i - 1) : Terminates(f, k)

\* every statement of the table is terminated
AllTerminated(f, tg) ==
    \A i \in 1..Len(f) : IsStart(f, tg, i) => \E k \in i..Len(f) : Terminates(f, k)

\* the first terminating line from line i on, or the last line of the file
EndOf(f, i) ==
    IF \E k \in i..Len(f) : Terminates(f, k)
    THEN CHOOSE k \in i..Len(f) : Terminates(f, k) /\ \A m \in i..(k - 1) : ~Terminates(f, m)
    ELSE Len(f)

RECURSIVE ConcatLines(_, _, _)
ConcatLines(f, a, b) == IF a > b THEN <<>> ELSE Stripped(f, a) \o ConcatLines(f, a + 1, b)

RECURSIVE StatementsFrom(_, _, _)
\* the statements of the table that start at line i or later, in file order
StatementsFrom(f, tg, i) ==
    IF i > Len(f) THEN <<>>
    ELSE IF IsStart(f, tg, i)
    THEN <<ConcatLines(f, i, EndOf(f, i))>> \o StatementsFrom(f, tg, i + 1)
    ELSE StatementsFrom(f, tg, i + 1)

\* C24: on a file in which every statement of table T is terminated, the scan
\* for T emits exactly the statements whose first line starts with the prefix
\* of T, once each and in file order, each the concatenation of its stripped
\* lines up to the first that ends with ";"; blank lines and the lines read
\* between statements are skipped; after each emission no statement is open
C24_ScannerEmitsTerminatedStatements ==
    [][ fn = "scan" =>
          /\ (Len(ret'.emitted) > Len(ret.emitted) /\ ret'.state = "scanning")
                => ret'.buffer = NoBuffer
          /\ (ret'.state = "done" /\ AllTerminated(arg.file, Target(arg.table)))
                => /\ ret'.emitted = StatementsFrom(arg.file, Target(arg.table), 1)
                   /\ ret'.buffer = NoBuffer ]_vars

\* witness of C24: a statement of another table, a statement of two lines and
\* a statement of one line with blanks around it; the scan emitted the last two
C24_Witness ==
    /\ fn = "scan" /\ ret.state = "done" /\ arg.table = "receipts"
    /\ arg.file = << Target("receipt_items") \o <<Space, "(", "1", ")", ";">>,
                     Target("receipts") \o <<Space, "(", "1", ")", Comma>>,
                     <<"(", "1", ")", ";">>,
                     <<Space>> \o Target("receipts") \o <<Space, "(", "1", ")", ";", Space>> >>
    /\ ret.emitted = << Target("receipts") \o <<Space, "(", "1", ")", Comma, "(", "1", ")", ";">>,
                        Target("receipts") \o <<Space, "(", "1", ")", ";">> >>
    /\ ret.buffer = NoBuffer

\* the statement st cut after its last complete tuple and terminated
Completed(st, tg) ==
    LET closes == {i \in 1..Len(st) : st[i] = ")"} \cup {Len(tg)}
        last == CHOOSE i \in closes : \A k \in closes : k <= i
    IN  SubSeq(st, 1, last) \o <<";">>

\* every tuple of st is closed before the next is opened
FlatTuples(st) ==
    \A i \in 1..Len(st) : \A j \in (i + 1)..Len(st) :
        (st[i] = "(" /\ st[j] = "(") => \E k \in i..j : st[k] = ")"

\* C25: when the file ends inside a statement of the table, the buffered text
\* is emitted once, as the last statement; parsing it raises nothing and gives
\* one row per complete tuple, the rows of the same statement cut after its
\* last complete tuple and terminated
C25_UnterminatedTailIsEmitted ==
    (/\ fn = "scan"
     /\ ret.state \in {"done", "raised"}
     /\ ~AllTerminated(arg.file, Target(arg.table)))
        => /\ ret.state = "done" /\ ~ret.raised
           /\ ret.emitted = StatementsFrom(arg.file, Target(arg.table), 1)
           /\ Len(ret.rows) = Len(ret.emitted)
           /\ LET last == ret.emitted[Len(ret.emitted)]
              IN  /\ last = ret.buffer
                  /\ ret.rows[Len(ret.rows)]
                        = ParseInsertValues(Completed(last, Target(arg.table)),
                                            Target(arg.table)).rows
                  /\ FlatTuples(last) => Len(ret.rows[Len(ret.rows)]) = Count(last, ")")

\* witness of C25: a statement of three lines whose last line is cut inside
\* the third tuple; two rows were read from it
C25_Witness ==
    /\ fn = "scan" /\ ret.state = "done" /\ arg.table = "receipts"
    /\ arg.file = << Target("receipts") \o <<Space, "(", "1", ")", Comma>>,
                     <<"(", "1", ")", Comma>>,
                     <<"(", "1">> >>
    /\ ret.emitted = << Target("receipts")
                          \o <<Space, "(", "1", ")", Comma, "(", "1", ")", Comma, "(", "1">> >>
    /\ Len(ret.rows) = 1
    /\ Len(ret.rows[1]) = 2
    /\ ret.rows[1][1] = << <<"1">> >>

(* One pass over the file that routes every statement to the table named in *)
(* its prefix: the alternative to one scan per table.                        *)

\* the table name between the backquotes of an INSERT line, or no name
NamedTable(stripped) ==
    IF /\ Len(stripped) >= 4
       /\ stripped[1] = "INSERT INTO "
       /\ stripped[2] = Backquote
       /\ \E e \in 3..(Len(stripped) - 1) :
             stripped[e] = Backquote /\ stripped[e + 1] = " VALUES"
    THEN LET e == CHOOSE x \in 3..(Len(stripped) - 1) :
                     /\ stripped[x] = Backquote
                     /\ \A y \in 3..(x - 1) : stripped[y] # Backquote
         IN  SubSeq(stripped, 3, e - 1)
    ELSE <<>>

Demux(route, buffer, out) == [route |-> route, buffer |-> buffer, out |-> out]

\* the statement st goes to the table whose name is route
Routed(out, route, st) ==
    [t \in ScanTables |-> IF TableName(t) = route THEN Append(out[t], st) ELSE out[t]]

\* one line of the single pass
DemuxStep(dm, line) ==
    LET stripped == Strip(line)
    IN  IF stripped = <<>> THEN dm
        ELSE IF dm.buffer # NoBuffer
        THEN IF EndsWith(stripped, <<";">>)
             THEN Demux(<<>>, NoBuffer, Routed(dm.out, dm.route, dm.buffer \o stripped))
             ELSE Demux(dm.route, dm.buffer \o stripped, dm.out)
        ELSE IF NamedTable(stripped) # <<>>
        THEN IF EndsWith(stripped, <<";">>)
             THEN Demux(<<>>, NoBuffer, Routed(dm.out, NamedTable(stripped), stripped))
             ELSE Demux(NamedTable(stripped), stripped, dm.out)
        ELSE dm

\* the end of the file in the single pass
DemuxFinish(dm) ==
    IF dm.buffer # NoBuffer
    THEN Demux(dm.route, dm.buffer, Routed(dm.out, dm.route, dm.buffer))
    ELSE dm

RECURSIVE DemuxFrom(_, _, _)
DemuxFrom(dm, f, i) ==
    IF i > Len(f) THEN DemuxFinish(dm) ELSE DemuxFrom(DemuxStep(dm, f[i]), f, i + 1)

\* the statements the single pass gives each table
DemuxPass(f) == DemuxFrom(Demux(<<>>, NoBuffer, [t \in ScanTables |-> <<>>]), f, 1).out

\* every INSERT line of the file is read when no statement is open: each
\* statement is terminated before the next INSERT line
Separated(f) ==
    \A i \in 1..Len(f) : NamedTable(Stripped(f, i)) # <<>> =>
        \A j \in 1..(i - 1) : NamedTable(Stripped(f, j)) # <<>> =>
            \E k \in j..(i - 1) : Terminates(f, k)

----------------------------------------------------------------------------
(* The import loop of a rebuild, statement by statement, with the events a  *)
(* reader of the store and the progress sink observe.                        *)

MaxChunks == 2

\* rows one statement of the dump or one page of the live cursor can hold
ChunkSizes == {0, 250, BatchSize}

\* index_sql: the indexes of each plan
PlanIndexSql ==
    << << "idx_patients_name" >>,
       << >>,
       << "idx_stock_items_name" >>,
       << "idx_receipts_patient_date" >>,
       << "idx_receipt_items_rcpt", "idx_receipt_items_item" >> >>

Event(kind, p) == [kind |-> kind, table |-> Plans[p]]

\* the order of the statements that follow the row loop, with the indexes
\* created before the last batch is written
FinishOrderIndexFirst == <<"index", "flush", "commit", "report">>

\* lines 213-220: the last batch, the indexes, the commit, the notification
FinishOrder == <<"flush", "index", "commit", "report">>

\* the statement that follows the one at position pos
Following(pos) ==
    LET k == CHOOSE i \in 1..Len(FinishOrder) : FinishOrder[i] = pos
    IN  IF k < Len(FinishOrder) THEN FinishOrder[k + 1] ELSE "next"

ImportInit ==
    /\ ParkedImporter
    /\ fn = "import"
    /\ \E n \in 0..MaxChunks : arg = [chunks |-> n]
    /\ ret = [state |-> "notify", plan |-> 1, batch |-> 0, total |-> 0, fetched |-> 0,
              read |-> 0, log |-> <<>>, imported |-> <<>>]

\* line 198: "Importing <table> ..."
ImportNotify ==
    /\ fn = "import"
    /\ ret.state = "notify"
    /\ ret' = [ret EXCEPT !.state = "rows", !.batch = 0, !.total = 0, !.fetched = 0,
                          !.read = 0, !.log = << Event("importing", ret.plan) >>]
    /\ UNCHANGED <<importerVars, fn, arg>>

\* lines 201-212: one statement or page is converted and appended to the batch;
\* a batch of at least 500 rows is written and reported
ImportRows ==
    /\ fn = "import"
    /\ ret.state = "rows"
    /\ ret.read < arg.chunks
    /\ \E c \in ChunkSizes :
         LET b == ret.batch + c IN
         ret' = IF b >= BatchSize
                THEN [ret EXCEPT !.read = @ + 1, !.fetched = @ + c, !.batch = 0,
                                 !.total = @ + b,
                                 !.log = @ \o << Event("write", ret.plan),
                                                 Event("processed", ret.plan) >>]
                ELSE [ret EXCEPT !.read = @ + 1, !.fetched = @ + c, !.batch = b]
    /\ UNCHANGED <<importerVars, fn, arg>>

\* line 201: the source has no more statements or pages
ImportRowsEnd ==
    /\ fn = "import"
    /\ ret.state = "rows"
    /\ ret.read = arg.chunks
    /\ ret' = [ret EXCEPT !.state = FinishOrder[1]]
    /\ UNCHANGED <<importerVars, fn, arg>>

\* lines 213-216: what is left in the batch is written
ImportFlush ==
    /\ fn = "import"
    /\ ret.state = "flush"
    /\ ret' = IF ret.batch > 0
              THEN [ret EXCEPT !.state = Following("flush"), !.total = @ + ret.batch,
                               !.batch = 0,
                               !.log = @ \o << Event("write", ret.plan) >>]
              ELSE [ret EXCEPT !.state = Following("flush")]
    /\ UNCHANGED <<importerVars, fn, arg>>

\* lines 217-218: the index statements of the plan
ImportIndexes ==
    /\ fn = "import"
    /\ ret.state = "index"
    /\ ret' = [ret EXCEPT !.state = Following("index"),
                          !.log = @ \o [k \in 1..Len(PlanIndexSql[ret.plan]) |->
                                           Event("index", ret.plan)]]
    /\ UNCHANGED <<importerVars, fn, arg>>

\* line 219
ImportCommit ==
    /\ fn = "import"
    /\ ret.state = "commit"
    /\ ret' = [ret EXCEPT !.state = Following("commit"),
                          !.log = @ \o << Event("commit", ret.plan) >>]
    /\ UNCHANGED <<importerVars, fn, arg>>

\* line 220 and the step of the loop of line 145: "<table>: <total> rows
\* imported.", then the next plan of the registry
ImportReport ==
    /\ fn = "import"
    /\ ret.state = "report"
    /\ ret' = [ret EXCEPT !.state = IF ret.plan < NumPlans THEN "notify" ELSE "done",
                          !.plan = IF ret.plan < NumPlans THEN @ + 1 ELSE @,
                          !.log = @ \o << Event("imported", ret.plan) >>,
                          !.imported = Append(@, Plans[ret.plan])]
    /\ UNCHANGED <<importerVars, fn, arg>>

\* a statement of the store, a read of the source or the progress sink raises:
\* the exception leaves the loop
ImportRaises ==
    /\ fn = "import"
    /\ ret.state \notin {"done", "raised"}
    /\ ret' = [ret EXCEPT !.state = "raised"]
    /\ UNCHANGED <<importerVars, fn, arg>>

ImportNext ==
    \/ ImportNotify \/ ImportRows \/ ImportRowsEnd \/ ImportFlush
    \/ ImportIndexes \/ ImportCommit \/ ImportReport \/ ImportRaises

SpecImport == ImportInit /\ [][ImportNext]_vars

\* the phase of an event in the life of a plan
Phase(kind) ==
    CASE kind = "importing" -> 1
      [] kind \in {"write", "processed"} -> 2
      [] kind = "index" -> 3
      [] kind = "commit" -> 4
      [] kind = "imported" -> 5

Kinds(log, kind) == {i \in 1..Len(log) : log[i].kind = kind}

\* the plan whose events the log holds
LogPlan == IF Kinds(ret.log, "imported") # {} THEN Len(ret.imported) ELSE ret.plan

\* C27: plans are imported one after another in registry order; the events of
\* a plan are its start notification, its row writes, its index statements,
\* its commit and its end notification, in this order; when an index statement
\* of a plan runs every row read for the plan has been written
C27_EventsInOrder ==
    fn = "import" =>
        LET log == ret.log IN
        /\ ret.imported = SubSeq(Plans, 1, Len(ret.imported))
        /\ Kinds(log, "imported") = {} => ret.plan = Len(ret.imported) + 1
        /\ \A i \in 1..Len(log) :
              /\ log[i].table = Plans[LogPlan]
              /\ (i = 1) <=> (log[i].kind = "importing")
              /\ \A j \in 1..(i - 1) : Phase(log[j].kind) <= Phase(log[i].kind)
        /\ Cardinality(Kinds(log, "commit")) <= 1
        /\ Cardinality(Kinds(log, "imported")) <= 1
        /\ Kinds(log, "index") # {} => (ret.batch = 0 /\ ret.total = ret.fetched)
        /\ Kinds(log, "commit") # {} =>
              Cardinality(Kinds(log, "index")) = Len(PlanIndexSql[LogPlan])
        /\ Kinds(log, "imported") # {} => Kinds(log, "commit") # {}

\* the last plan was imported from two statements of 250 rows: one write at
\* the threshold, then its two indexes, the commit and the notification
C27_Witness ==
    /\ fn = "import" /\ ret.state = "done"
    /\ ret.imported = Plans
    /\ ret.total = BatchSize
    /\ ret.log = << Event("importing", 5), Event("write", 5), Event("processed", 5),
                    Event("index", 5), Event("index", 5), Event("commit", 5),
                    Event("imported", 5) >>

----------------------------------------------------------------------------
(* The live connection of a rebuild: the attempts of _open_mysql and the    *)
(* reads made over the open connection.                                      *)

MaxReads == 2

\* line 176: the code MySQL gives an unknown character set
UnknownCharsetCode == 1115

\* line 175: the error code of an exception that has no arguments
NoCode == 0

\* args[0] of an exception: 2003 is the code of a refused connection
ErrorCodes == {UnknownCharsetCode, 2003, NoCode}

\* what an attempt of pymysql.connect can do: return a connection or raise;
\* code is args[0] of the exception, mentions tells whether its text holds
\* "Unknown character set"
Connected == [class |-> "ok", code |-> NoCode, mentions |-> FALSE]

ConnectOutcomes ==
    {Connected} \cup
    [class : {"pymysql.err.OperationalError", "pymysql.err.InternalError", "ValueError"},
     code : ErrorCodes,
     mentions : BOOLEAN]

\* pymysql.MySQLError is the base of the errors of pymysql
IsMySQLError(exc) ==
    exc.class \in {"pymysql.err.OperationalError", "pymysql.err.InternalError"}

\* a fallback after any failure of the first attempt
FallsBackOnAnyError(exc) == exc.class # "ok"

\* lines 175-177: the first attempt failed for the character set
FallsBack(exc) ==
    /\ exc.class = "pymysql.err.OperationalError"
    /\ (exc.code = UnknownCharsetCode \/ exc.mentions)

OpenInit ==
    /\ ParkedImporter
    /\ fn = "open"
    /\ \E first \in ConnectOutcomes, second \in ConnectOutcomes, failAt \in 0..MaxReads :
          arg = [first |-> first, second |-> second, failAt |-> failAt]
    /\ ret = [state |-> "start", attempts |-> <<>>, reads |-> 0, error |-> "none"]

\* lines 173-174 and 187-189: _connect("utf8mb4")
FirstAttempt ==
    /\ fn = "open"
    /\ ret.state = "start"
    /\ LET exc == arg.first IN
       ret' = [ret EXCEPT
                 !.attempts = Append(@, "utf8mb4"),
                 !.state = IF exc.class = "ok" THEN "open"
                           ELSE IF FallsBack(exc) THEN "fallback" ELSE "failed",
                 !.error = IF exc.class = "ok" \/ FallsBack(exc) THEN "none"
                           ELSE IF IsMySQLError(exc) THEN "DataImportError"
                           ELSE exc.class]
    /\ UNCHANGED <<importerVars, fn, arg>>

\* lines 178-186: _connect("utf8")
FallbackAttempt ==
    /\ fn = "open"
    /\ ret.state = "fallback"
    /\ LET exc == arg.second IN
       ret' = [ret EXCEPT
                 !.attempts = Append(@, "utf8"),
                 !.state = IF exc.class = "ok" THEN "open" ELSE "failed",
                 !.error = IF exc.class = "ok" THEN "none"
                           ELSE IF IsMySQLError(exc) THEN "DataImportError"
                           ELSE exc.class]
    /\ UNCHANGED <<importerVars, fn, arg>>

\* _iter_table_rows_mysql, lines 270-273: cursor.execute or cursor.fetchmany
\* over the open connection; a failure leaves the rebuild, whose finally
\* closes the connection
ReadOverConnection ==
    /\ fn = "open"
    /\ ret.state = "open"
    /\ ret.reads < MaxReads
    /\ ret' = IF ret.reads + 1 = arg.failAt
              THEN [ret EXCEPT !.reads = @ + 1, !.state = "failed",
                               !.error = "pymysql.err.OperationalError"]
              ELSE [ret EXCEPT !.reads = @ + 1]
    /\ UNCHANGED <<importerVars, fn, arg>>

\* _rebuild_sqlite, lines 153-155: the connection is closed after the import
CloseConnection ==
    /\ fn = "open"
    /\ ret.state = "open"
    /\ ret.reads = MaxReads
    /\ ret' = [ret EXCEPT !.state = "closed"]
    /\ UNCHANGED <<importerVars, fn, arg>>

OpenNext == FirstAttempt \/ FallbackAttempt \/ ReadOverConnection \/ CloseConnection

SpecOpen == OpenInit /\ [][OpenNext]_vars

\* the first attempt failed with the error an unknown character set gives
UnknownCharset(exc) == exc.class # "ok" /\ (exc.code = UnknownCharsetCode \/ exc.mentions)

\* C28: at most two attempts are made, utf8mb4 then utf8; the second is made
\* only after the first failed with an unknown-character-set error; another
\* failure of the first attempt, a failure of the second and a failure of a
\* read over the open connection end with an error and no further attempt
C28_OneFallbackOnly ==
    fn = "open" =>
        /\ Len(ret.attempts) <= 2
        /\ ret.attempts = SubSeq(<<"utf8mb4", "utf8">>, 1, Len(ret.attempts))
        /\ Len(ret.attempts) = 2 => UnknownCharset(arg.first)
        /\ (ret.state # "start" /\ arg.first.class # "ok" /\ ~UnknownCharset(arg.first)) =>
              (ret.state = "failed" /\ ret.error # "none" /\ Len(ret.attempts) = 1)
        /\ (Len(ret.attempts) = 2 /\ arg.second.class # "ok") =>
              (ret.state = "failed" /\ ret.error # "none")
        /\ (ret.state = "failed" /\ ret.reads > 0) =>
              /\ ret.error # "none"
              /\ ret.reads = arg.failAt
              /\ Len(ret.attempts) = IF arg.first.class = "ok" THEN 1 ELSE 2
        /\ ret.state = "failed" <=> ret.error # "none"

\* the first attempt failed with code 1115, the fallback connected, and the
\* second read over that connection failed: two attempts, an error
C28_Witness ==
    /\ fn = "open" /\ ret.state = "failed"
    /\ arg.first = [class |-> "pymysql.err.OperationalError", code |-> UnknownCharsetCode,
                    mentions |-> FALSE]
    /\ arg.second = Connected
    /\ ret.attempts = <<"utf8mb4", "utf8">>
    /\ ret.reads = 2
    /\ ret.error = "pymysql.err.OperationalError"

----------------------------------------------------------------------------
\* C30: a row shorter than a source position of the index map does not fail:
\* each missing field is converted as a null, the empty text in a text column
\* and zero in a numeric column, and the row is written with one value per
\* column
C30_ShortRowsArePadded ==
    (fn = "prepare" /\ ret.state # "pending") =>
        /\ ret.state # "raised"
        /\ \A k \in 1..Len(ret.prepared) :
              ret.prepared[k].source = MissingSource =>
                 /\ ~ret.prepared[k].raised
                 /\ IF ret.prepared[k].converter = "_to_clean_str"
                    THEN ret.prepared[k].value = <<>>
                    ELSE IF ret.prepared[k].converter = "_to_float"
                    THEN ret.prepared[k].value = FloatZero
                    ELSE ret.prepared[k].value = IntZero
        /\ ret.state = "inserted" => Len(ret.prepared) = Len(PlanColumns[arg.plan])

\* a stock_items row of four fields was inserted: the price and the counts it
\* lacks are zero, the fields it has are converted
C30_Witness ==
    /\ fn = "prepare" /\ ret.state = "inserted"
    /\ arg.path = "dump" /\ Plans[arg.plan] = "stock_items" /\ arg.width = 4
    /\ arg.field = <<Space, "1", Space>>
    /\ ret.prepared[1].value = <<"1">>
    /\ ret.prepared[3].source = 3
    /\ ret.prepared[4].source = MissingSource /\ ret.prepared[4].value = FloatZero
    /\ ret.prepared[5].source = MissingSource /\ ret.prepared[5].value = IntZero
    /\ ret.prepared[7].source = MissingSource /\ ret.prepared[7].value = FloatZero

====
